---- MODULE Spec2Model ----
(***************************************************************************)
(* A model of the XEDIT editor core (crates/xedit-core): one Editor value  *)
(* with its Buffer, cursor, single-level undo snapshot, ALL filter and the *)
(* prefix-area block / copy-move state machines, driven by the host        *)
(* through execute, execute_prefix, input_line, set_current_line, the      *)
(* character editors and load_file.                                        *)
(*                                                                         *)
(* A line's text is a sequence of one-character strings.  Option<T> is a   *)
(* sequence of length 0 (None) or 1 (Some).                                *)
(***************************************************************************)
EXTENDS Integers, Sequences, FiniteSets, TLC

\* ------------------------------------------------------------------ bounds

\* Most calls the host makes in a behaviour of Spec.
MaxSteps == 3
\* Most calls the host makes in a behaviour of SpecPrefix.
MaxPrefixSteps == 4
\* Largest buffer length and alt_count explored in SpecPrefix.
MaxPrefixLines == 4
\* Most calls the host makes in a behaviour of SpecSearch.
MaxSearchSteps == 4
\* Largest line number a prefix command is typed at in SpecSearch.
MaxSearchLines == 4
\* Largest count given to UP and DOWN in SpecSearch.
MaxMove == 2
\* Most calls the host makes in a behaviour of SpecSort.
MaxSortSteps == 4
\* Largest line number a prefix command is typed at in SpecSort.
MaxSortLines == 3
\* Most steps (host calls, handler calls, the start and the end of a run) in a
\* behaviour of SpecMacro.
MaxMacroSteps == 5
\* Most calls on the ring in a behaviour of SpecRing.
MaxRingSteps == 6
\* Most calls on the buffer in a behaviour of SpecBuffer.
MaxBufferSteps == 4
\* Largest line number the host inserts after in SpecBuffer.
MaxAfter == 3
\* Most calls in a behaviour of SpecQuit.
MaxQuitSteps == 4
\* Most lookups in a behaviour of SpecLookup.
MaxLookupSteps == 1
\* Longest abbreviation looked up in SpecLookup; the longest name has 8 letters.
MaxName == 8
\* Most calls in a behaviour of SpecPf.
MaxPfSteps == 3
\* Largest buffer length explored.
MaxLines == 2
\* Largest alt_count explored.
MaxAlt == 2
\* Largest current_col explored.
MaxCol == 2
\* Longest line text explored.
MaxText == 2

\* ----------------------------------------------------------------- helpers

None == <<>>
Some(x) == <<x>>

Min(a, b) == IF a <= b THEN a ELSE b
Max(a, b) == IF a >= b THEN a ELSE b

\* usize::saturating_sub
saturating_sub(a, b) == IF a >= b THEN a - b ELSE 0

\* The characters of a String, by byte offset (ASCII): s[from..to] is
\* Slice(s, from, to), 0-based and exclusive of `to`.
Slice(s, from, to) == SubSeq(s, from + 1, to)

\* A text is the sequence of the bytes of its UTF-8 encoding. An ASCII
\* character is one byte, written as itself; U+0131 (dotless i) is the two
\* bytes 0xC4 0xB1, written "C4" "B1".
IsContinuation(b) == b = "B1"

\* str::is_char_boundary
is_char_boundary(s, index) ==
    \/ index = 0
    \/ index = Len(s)
    \/ index < Len(s) /\ ~IsContinuation(s[index + 1])

\* char::to_uppercase on the one-byte characters: the letters a to z have an
\* upper case, every other one-byte character is its own
UpperMap ==
    [a |-> "A", b |-> "B", c |-> "C", d |-> "D", e |-> "E", f |-> "F", g |-> "G",
     h |-> "H", i |-> "I", j |-> "J", k |-> "K", l |-> "L", m |-> "M", n |-> "N",
     o |-> "O", p |-> "P", q |-> "Q", r |-> "R", s |-> "S", t |-> "T", u |-> "U",
     v |-> "V", w |-> "W", x |-> "X", y |-> "Y", z |-> "Z"]
UpperChar(c) == IF c \in DOMAIN UpperMap THEN UpperMap[c] ELSE c

\* str::to_uppercase: character by character; the upper case of U+0131 is
\* "I", one byte where the text has two
RECURSIVE to_uppercase(_)
to_uppercase(s) ==
    IF s = <<>> THEN <<>>
    ELSE IF Len(s) >= 2 /\ s[1] = "C4" /\ s[2] = "B1"
    THEN <<"I">> \o to_uppercase(Tail(Tail(s)))
    ELSE <<UpperChar(s[1])>> \o to_uppercase(Tail(s))

\* str::find: the byte offset of the first occurrence of needle, or None
str_find(haystack, needle) ==
    LET at == {i \in 0..(Len(haystack) - Len(needle)) :
                  Slice(haystack, i, i + Len(needle)) = needle}
    IN IF at = {} THEN None
       ELSE Some(CHOOSE i \in at : \A j \in at : i <= j)

\* str::contains
str_contains(haystack, needle) == str_find(haystack, needle) # None

\* ------------------------------------------------------------------ Buffer

Buffer_new == [lines |-> <<>>, modified |-> FALSE]

Buffer_from_lines(ls) == [lines |-> ls, modified |-> FALSE]

Buffer_len(b) == Len(b.lines)

\* Buffer::get / Buffer::line_text: Some(text) of the 1-based line, or None
Buffer_get(b, line_num) ==
    IF line_num = 0 \/ line_num > Len(b.lines) THEN None
    ELSE Some(b.lines[line_num])

\* Buffer::get_mut followed by Line::set_text: get_mut marks the buffer
\* modified as soon as the line exists; text is the new text of that line.
Buffer_get_mut_set_text(b, line_num, text) ==
    IF line_num = 0 \/ line_num > Len(b.lines) THEN b
    ELSE [lines |-> [b.lines EXCEPT ![line_num] = text], modified |-> TRUE]

Buffer_insert_after(b, after_line, text) ==
    LET idx == Min(after_line, Len(b.lines))
    IN [lines |-> SubSeq(b.lines, 1, idx) \o <<text>>
                    \o SubSeq(b.lines, idx + 1, Len(b.lines)),
        modified |-> TRUE]

Buffer_insert_lines_after(b, after_line, texts) ==
    LET idx == Min(after_line, Len(b.lines))
        ls  == SubSeq(b.lines, 1, idx) \o texts
                 \o SubSeq(b.lines, idx + 1, Len(b.lines))
    IN [lines |-> ls,
        modified |-> IF ls # <<>> THEN TRUE ELSE b.modified]

\* a delete that takes the last line, whatever the number
Buffer_delete_last(b, line_num) ==
    IF line_num = 0 \/ line_num > Len(b.lines) THEN b
    ELSE [lines |-> SubSeq(b.lines, 1, Len(b.lines) - 1), modified |-> TRUE]

Buffer_delete(b, line_num) ==
    IF line_num = 0 \/ line_num > Len(b.lines) THEN b
    ELSE [lines |-> SubSeq(b.lines, 1, line_num - 1)
                      \o SubSeq(b.lines, line_num + 1, Len(b.lines)),
          modified |-> TRUE]

Buffer_delete_range(b, from, to) ==
    IF from = 0 \/ from > Len(b.lines) \/ to < from THEN b
    ELSE LET t == Min(to, Len(b.lines))
         IN [lines |-> SubSeq(b.lines, 1, from - 1)
                         \o SubSeq(b.lines, t + 1, Len(b.lines)),
             modified |-> TRUE]

Buffer_clear_modified(b) == [b EXCEPT !.modified = FALSE]

\* ------------------------------------------------------------------ Target

Absolute(n) == [tag |-> "Absolute", n |-> n]
Relative(n) == [tag |-> "Relative", n |-> n]
StringForward(s) == [tag |-> "StringForward", s |-> s]
StringBackward(s) == [tag |-> "StringBackward", s |-> s]
Star == [tag |-> "Star"]
And(a, b) == [tag |-> "And", a |-> a, b |-> b]
Or(a, b) == [tag |-> "Or", a |-> a, b |-> b]

\* a matches_line that compares as written whatever the case setting
matches_line_as_written(t, case_respect, line_text) ==
    t.tag \in {"StringForward", "StringBackward"} /\ str_contains(line_text, t.s)

\* Target::matches_line
RECURSIVE matches_line(_, _, _)
matches_line(t, case_respect, line_text) ==
    IF t.tag \in {"StringForward", "StringBackward"}
    THEN IF case_respect
         THEN str_contains(line_text, t.s)
         ELSE str_contains(to_uppercase(line_text), to_uppercase(t.s))
    ELSE IF t.tag = "And"
    THEN matches_line(t.a, case_respect, line_text)
         /\ matches_line(t.b, case_respect, line_text)
    ELSE IF t.tag = "Or"
    THEN matches_line(t.a, case_respect, line_text)
         \/ matches_line(t.b, case_respect, line_text)
    ELSE FALSE

\* Target::resolve: Some(line number) or None
resolve(t, current, buffer_len, case_respect, b) ==
    CASE t.tag = "Absolute" ->
           IF t.n <= buffer_len THEN Some(t.n) ELSE None
      [] t.tag = "Relative" ->
           IF current + t.n >= 0 /\ current + t.n <= buffer_len
           THEN Some(current + t.n) ELSE None
      [] t.tag = "StringForward" ->
           LET hit == {i \in (current + 1)..buffer_len :
                         /\ Buffer_get(b, i) # None
                         /\ matches_line(t, case_respect, Buffer_get(b, i)[1])}
           IN IF hit = {} THEN None
              ELSE Some(CHOOSE i \in hit : \A j \in hit : i <= j)
      [] t.tag = "StringBackward" ->
           LET hit == {i \in 1..(current - 1) :
                         /\ Buffer_get(b, i) # None
                         /\ matches_line(t, case_respect, Buffer_get(b, i)[1])}
           IN IF current = 0 \/ hit = {} THEN None
              ELSE Some(CHOOSE i \in hit : \A j \in hit : i >= j)
      [] t.tag = "Star" -> Some(buffer_len)
      [] t.tag \in {"And", "Or"} ->
           LET hit == {i \in (current + 1)..buffer_len :
                         /\ Buffer_get(b, i) # None
                         /\ matches_line(t, case_respect, Buffer_get(b, i)[1])}
           IN IF hit = {} THEN None
              ELSE Some(CHOOSE i \in hit : \A j \in hit : i <= j)

\* ------------------------------------------------------- results and errors

\* CommandResult::ok / with_message / quit / enter_input / refresh
ResultOk == [kind |-> "Ok", action |-> "Continue", message |-> None]
ResultWithMessage(msg) == [kind |-> "Ok", action |-> "Continue", message |-> Some(msg)]
ResultQuit == [kind |-> "Ok", action |-> "Quit", message |-> None]
ResultEnterInput == [kind |-> "Ok", action |-> "EnterInput", message |-> None]
ResultRefresh == [kind |-> "Ok", action |-> "Refresh", message |-> None]

\* Err(XeditError::kind(payload)); FileModified, ReadOnly, NoFile carry none
Err(kind, payload) == [kind |-> kind, action |-> "Error", message |-> Some(payload)]
ErrBare(kind) == [kind |-> kind, action |-> "Error", message |-> None]

\* the call did not return: an arithmetic overflow panicked (a build with
\* overflow checks, the dev profile's default)
Panicked == [kind |-> "Panic", action |-> "Abort", message |-> None]

\* format!("{}", n) of a usize. Where a build without overflow checks wraps,
\* a usize is held as its representative of least absolute value modulo 2^64
\* (sums and differences are exact), so n < 0 stands for 2^64 + n.
usize_string(n) == IF n >= 0 THEN ToString(n) ELSE "2^64" \o ToString(n)

\* impl Display for XeditError
ErrorDisplay(r) ==
    CASE r.kind = "FileNotFound" -> "File not found: " \o r.message[1]
      [] r.kind = "Io" -> "I/O error: " \o r.message[1]
      [] r.kind = "InvalidCommand" -> r.message[1]
      [] r.kind = "TargetNotFound" -> r.message[1]
      [] r.kind = "InvalidTarget" -> "Invalid target: " \o r.message[1]
      [] r.kind = "PrefixError" -> "Prefix error: " \o r.message[1]
      [] r.kind = "FileModified" -> "File has been modified; use QQUIT to quit anyway"
      [] r.kind = "ReadOnly" -> "File is read-only"
      [] r.kind = "NoFile" -> "No file in ring"

\* ------------------------------------------------------------------- state

VARIABLES
    buffer,             \* Editor.buffer: [lines, modified]
    current_line,       \* Editor.current_line
    current_col,        \* Editor.current_col
    filepath,           \* Editor.filepath: None or Some(path)
    alt_count,          \* Editor.alt_count
    message,            \* Editor.message
    pending_block,      \* Editor.pending_block: None or Some([command, start_line])
    pending_operation,  \* Editor.pending_operation: None or Some([op_type, source_start, source_end])
    all_filter,         \* Editor.all_filter: None or Some(sequence of BOOLEAN)
    undo_snapshot,      \* Editor.undo_snapshot: None or Some([lines, current_line, current_col, alt_count])
    case_respect,       \* Editor.case_respect
    stay,               \* Editor.stay
    op,                 \* the host's last call: [api, name, line_num]
    result,             \* what that call returned
    before,             \* history: the editor's fields (but message) before that
                        \* call; for a call on the ring or on a buffer of the
                        \* host's, what the call found
    marked_len,         \* history: the buffer length when pending_operation was last set
    steps,              \* history: the number of calls the host has made
    macro_run,          \* run_macro's locals while a macro runs, and history
    ring,               \* a Ring: [editors, current]
    free_buffer,        \* a Buffer the host has made: [lines, modified]
    pf_keys,            \* Editor.pf_keys: index 0..23 to None or Some(command text)
    saved,              \* history, kept in SpecQuit: the buffer's lines at the last
                        \* load_file or save that succeeded
    marked              \* history, kept in SpecPrefix: Some(the texts of the source
                        \* lines when pending_operation was last set), or None once
                        \* the buffer has changed otherwise than by a prefix Delete
                        \* above the source range

edvars == <<buffer, current_line, current_col, filepath, alt_count, message,
            pending_block, pending_operation, all_filter, undo_snapshot,
            case_respect, stay>>

vars == <<buffer, current_line, current_col, filepath, alt_count, message,
          pending_block, pending_operation, all_filter, undo_snapshot,
          case_respect, stay, op, result, before, marked_len, steps, macro_run,
          ring, free_buffer, pf_keys, saved, marked>>

\* what the calls of Spec, SpecPrefix, SpecSearch and SpecSort on the editor
\* leave alone
others == <<macro_run, ring, free_buffer, pf_keys, saved, marked>>


\* The tuple of fields a handler that only moves the cursor leaves alone.
keep_but_line == <<buffer, current_col, filepath, alt_count, pending_block,
                   pending_operation, all_filter, undo_snapshot, case_respect, stay>>

\* Editor.page_size as Editor::new sets it
page_size == 20

\* a snapshot_for_undo that stores nothing new
snapshot_kept == undo_snapshot

\* Editor::snapshot_for_undo: the value it stores in undo_snapshot
snapshot_for_undo ==
    Some([lines |-> buffer.lines, current_line |-> current_line,
          current_col |-> current_col, alt_count |-> alt_count])

\* The clamp that follows a deletion: if current_line > len { current_line = len }
clamp_line(cur, b) == IF cur > Buffer_len(b) THEN Buffer_len(b) ELSE cur

\* Editor::is_line_visible
is_line_visible(line_num) ==
    IF all_filter = None THEN TRUE
    ELSE IF line_num = 0 \/ line_num > Len(all_filter[1]) THEN TRUE
         ELSE all_filter[1][line_num]

\* ------------------------------------------------------------- navigation

\* the while loop of cmd_up under an ALL filter
RECURSIVE up_loop(_, _)
up_loop(cur, remaining) ==
    IF remaining > 0 /\ cur > 0
    THEN up_loop(cur - 1,
                 IF is_line_visible(cur - 1) \/ cur - 1 = 0
                 THEN remaining - 1 ELSE remaining)
    ELSE cur

\* the while loop of cmd_down under an ALL filter
RECURSIVE down_loop(_, _)
down_loop(cur, remaining) ==
    IF remaining > 0 /\ cur < Buffer_len(buffer)
    THEN down_loop(cur + 1,
                   IF is_line_visible(cur + 1) THEN remaining - 1 ELSE remaining)
    ELSE cur

cmd_up(n) ==
    /\ current_line' = IF all_filter # None
                       THEN up_loop(current_line, n)
                       ELSE saturating_sub(current_line, n)
    /\ result' = ResultOk
    /\ UNCHANGED keep_but_line

cmd_down(n) ==
    /\ current_line' = IF all_filter # None
                       THEN down_loop(current_line, n)
                       ELSE Min(current_line + n, Buffer_len(buffer))
    /\ result' = ResultOk
    /\ UNCHANGED keep_but_line

\* a Top that moves up by one page of one line
cmd_top_by_page ==
    /\ current_line' = saturating_sub(current_line, 1)
    /\ result' = ResultOk
    /\ UNCHANGED keep_but_line

cmd_top ==
    /\ current_line' = 0
    /\ result' = ResultOk
    /\ UNCHANGED keep_but_line

cmd_bottom ==
    /\ current_line' = Buffer_len(buffer)
    /\ result' = ResultOk
    /\ UNCHANGED keep_but_line

cmd_forward(pages) == cmd_down(pages * page_size)

cmd_backward(pages) == cmd_up(pages * page_size)

cmd_left(n) ==
    /\ current_col' = Max(saturating_sub(current_col, n), 1)
    /\ result' = ResultOk
    /\ UNCHANGED <<buffer, current_line, filepath, alt_count, pending_block,
                   pending_operation, all_filter, undo_snapshot, case_respect, stay>>

cmd_right(n) ==
    /\ current_col' = current_col + n
    /\ result' = ResultOk
    /\ UNCHANGED <<buffer, current_line, filepath, alt_count, pending_block,
                   pending_operation, all_filter, undo_snapshot, case_respect, stay>>

\* ------------------------------------------------------------------ search

\* the characters of a text joined into one string, for messages
RECURSIVE TextString(_)
TextString(s) == IF s = <<>> THEN "" ELSE Head(s) \o TextString(Tail(s))

\* a cmd_locate that runs to the end of the file when nothing matches
cmd_locate_runs_off(target) ==
    LET resolved == resolve(target, current_line, Buffer_len(buffer),
                            case_respect, buffer)
    IN /\ current_line' = IF resolved # None THEN resolved[1] ELSE Buffer_len(buffer)
       /\ result' = IF resolved # None THEN ResultOk
                    ELSE Err("TargetNotFound", "Target not found")
       /\ UNCHANGED keep_but_line

\* Editor::cmd_locate
cmd_locate(target) ==
    LET resolved == resolve(target, current_line, Buffer_len(buffer),
                            case_respect, buffer)
    IN /\ current_line' = IF resolved # None THEN resolved[1] ELSE current_line
       /\ result' = IF resolved # None THEN ResultOk
                    ELSE IF target.tag \in {"StringForward", "StringBackward"}
                         THEN Err("TargetNotFound",
                                  "Target not found: " \o TextString(target.s))
                         ELSE Err("TargetNotFound", "Target not found")
       /\ UNCHANGED keep_but_line

\* -------------------------------------------------------------------- undo

\* a cmd_undo that reads the snapshot without taking it: undo_snapshot stays
cmd_undo_keep ==
    IF undo_snapshot # None
    THEN /\ buffer' = Buffer_from_lines(undo_snapshot[1].lines)
         /\ current_line' = undo_snapshot[1].current_line
         /\ current_col' = undo_snapshot[1].current_col
         /\ alt_count' = undo_snapshot[1].alt_count
         /\ all_filter' = None
         /\ result' = ResultWithMessage("Undone")
         /\ UNCHANGED <<filepath, pending_block, pending_operation,
                        undo_snapshot, case_respect, stay>>
    ELSE /\ result' = Err("InvalidCommand", "Nothing to undo")
         /\ UNCHANGED <<buffer, current_line, current_col, filepath, alt_count,
                        pending_block, pending_operation, all_filter,
                        undo_snapshot, case_respect, stay>>

\* Editor::cmd_undo
cmd_undo ==
    IF undo_snapshot # None
    THEN /\ buffer' = Buffer_from_lines(undo_snapshot[1].lines)
         /\ current_line' = undo_snapshot[1].current_line
         /\ current_col' = undo_snapshot[1].current_col
         /\ alt_count' = undo_snapshot[1].alt_count
         /\ all_filter' = None
         /\ undo_snapshot' = None
         /\ result' = ResultWithMessage("Undone")
         /\ UNCHANGED <<filepath, pending_block, pending_operation,
                        case_respect, stay>>
    ELSE /\ result' = Err("InvalidCommand", "Nothing to undo")
         /\ UNCHANGED <<buffer, current_line, current_col, filepath, alt_count,
                        pending_block, pending_operation, all_filter,
                        undo_snapshot, case_respect, stay>>

\* ----------------------------------------------------------------- editing

cmd_input(text) ==
    IF text # None
    THEN /\ undo_snapshot' = snapshot_for_undo
         /\ buffer' = Buffer_insert_after(buffer, current_line, text[1])
         /\ current_line' = current_line + 1
         /\ alt_count' = alt_count + 1
         /\ result' = ResultOk
         /\ UNCHANGED <<current_col, filepath, pending_block, pending_operation,
                        all_filter, case_respect, stay>>
    ELSE /\ result' = ResultEnterInput
         /\ UNCHANGED <<buffer, current_line, current_col, filepath, alt_count,
                        pending_block, pending_operation, all_filter,
                        undo_snapshot, case_respect, stay>>

\* the (end, count) of the range DELETE removes, for Star and Relative(n > 0)
delete_end(target) ==
    IF target[1].tag = "Star" THEN Buffer_len(buffer)
    ELSE Min(current_line + target[1].n - 1, Buffer_len(buffer))

cmd_delete(target) ==
    /\ undo_snapshot' = snapshot_for_undo
    /\ UNCHANGED <<current_col, filepath, pending_block, pending_operation,
                   all_filter, case_respect, stay>>
    /\ IF current_line = 0
       THEN /\ result' = Err("InvalidCommand", "Cannot delete at Top of File")
            /\ UNCHANGED <<buffer, current_line, alt_count>>
       ELSE IF target = None
       THEN /\ buffer' = Buffer_delete(buffer, current_line)
            /\ alt_count' = alt_count + 1
            /\ current_line' = clamp_line(current_line, buffer')
            /\ result' = ResultOk
       ELSE IF target[1].tag = "Star"
               \/ (target[1].tag = "Relative" /\ target[1].n > 0)
       THEN LET end == delete_end(target)
                \* end - self.current_line overflows when current_line > end:
                \* the call panics, or count and alt_count wrap
                count == end - current_line + 1
            IN \/ /\ current_line > end
                  /\ result' = Panicked
                  /\ UNCHANGED <<buffer, current_line, alt_count>>
               \/ /\ buffer' = Buffer_delete_range(buffer, current_line, end)
                  /\ alt_count' = alt_count + count
                  /\ current_line' = clamp_line(current_line, buffer')
                  /\ result' = ResultWithMessage(usize_string(count)
                                                   \o " line(s) deleted")
       ELSE /\ result' = Err("InvalidCommand", "Invalid target for DELETE")
            /\ UNCHANGED <<buffer, current_line, alt_count>>

\* ----------------------------------------------------------- file commands

\* Editor::save_file; write_ok is whether fs::write succeeds
save_file(write_ok, on_success) ==
    IF filepath = None
    THEN /\ result' = ErrBare("NoFile")
         /\ UNCHANGED <<buffer, alt_count>>
    ELSE IF ~write_ok
    THEN /\ result' = Err("Io", "write failed")
         /\ UNCHANGED <<buffer, alt_count>>
    ELSE /\ buffer' = Buffer_clear_modified(buffer)
         /\ alt_count' = 0
         /\ result' = on_success

cmd_file(write_ok) ==
    /\ save_file(write_ok, ResultQuit)
    /\ UNCHANGED <<current_line, current_col, filepath, pending_block,
                   pending_operation, all_filter, undo_snapshot, case_respect, stay>>

cmd_save(write_ok) ==
    /\ save_file(write_ok, ResultWithMessage("File saved"))
    /\ UNCHANGED <<current_line, current_col, filepath, pending_block,
                   pending_operation, all_filter, undo_snapshot, case_respect, stay>>

\* a cmd_quit that does not look at the modified flag
cmd_quit_unguarded ==
    /\ result' = ResultQuit
    /\ UNCHANGED <<buffer, current_line, current_col, filepath, alt_count,
                   pending_block, pending_operation, all_filter, undo_snapshot,
                   case_respect, stay>>

\* Editor::cmd_quit
cmd_quit ==
    /\ result' = IF buffer.modified THEN ErrBare("FileModified") ELSE ResultQuit
    /\ UNCHANGED <<buffer, current_line, current_col, filepath, alt_count,
                   pending_block, pending_operation, all_filter, undo_snapshot,
                   case_respect, stay>>

cmd_qquit ==
    /\ result' = ResultQuit
    /\ UNCHANGED <<buffer, current_line, current_col, filepath, alt_count,
                   pending_block, pending_operation, all_filter, undo_snapshot,
                   case_respect, stay>>

\* Editor::cmd_get; read is what fs::read_to_string(filename) yields: None
\* (an error) or Some(the file's lines)
cmd_get(filename, read) ==
    IF read = None
    THEN /\ result' = Err("FileNotFound", filename)
         /\ UNCHANGED <<buffer, current_line, current_col, filepath, alt_count,
                        pending_block, pending_operation, all_filter,
                        undo_snapshot, case_respect, stay>>
    ELSE /\ buffer' = Buffer_insert_lines_after(buffer, current_line, read[1])
         /\ alt_count' = alt_count + Len(read[1])
         /\ result' = ResultWithMessage(ToString(Len(read[1]))
                         \o " line(s) read from " \o filename)
         /\ UNCHANGED <<current_line, current_col, filepath, pending_block,
                        pending_operation, all_filter, undo_snapshot,
                        case_respect, stay>>


\* ------------------------------------------------------------------ CHANGE

\* the for loop of cmd_change over line_num..=end_line; acc is
\* [buffer, changes_made, current_line, panicked]. pos is an offset into
\* haystack that the code uses to slice text: a slice that does not fall on
\* a character boundary of text panics.
RECURSIVE change_loop(_, _, _, _, _, _)
change_loop(acc, line_num, end_line, from, to, max_changes) ==
    IF line_num > end_line \/ acc.changes_made >= max_changes THEN acc
    ELSE LET got == Buffer_get(acc.buffer, line_num)
         IN IF got = None
            THEN change_loop(acc, line_num + 1, end_line, from, to, max_changes)
            ELSE LET text     == got[1]
                     needle   == IF case_respect THEN from ELSE to_uppercase(from)
                     haystack == IF case_respect THEN text ELSE to_uppercase(text)
                     pos      == str_find(haystack, needle)
                 IN IF pos = None
                    THEN change_loop(acc, line_num + 1, end_line, from, to, max_changes)
                    ELSE IF \/ ~is_char_boundary(text, pos[1])
                            \/ pos[1] + Len(from) > Len(text)
                            \/ ~is_char_boundary(text, pos[1] + Len(from))
                    THEN [acc EXCEPT !.panicked = TRUE]
                    ELSE LET new_text == Slice(text, 0, pos[1]) \o to
                                           \o Slice(text, pos[1] + Len(from), Len(text))
                         IN change_loop(
                              [buffer |-> Buffer_get_mut_set_text(acc.buffer, line_num, new_text),
                               changes_made |-> acc.changes_made + 1,
                               current_line |-> IF ~stay THEN line_num
                                                ELSE acc.current_line,
                               panicked |-> FALSE],
                              line_num + 1, end_line, from, to, max_changes)

\* target and count are Options
cmd_change(from, to, target, count) ==
    LET max_changes == IF count = None THEN 1 ELSE count[1]
        resolved == IF target = None THEN None
                    ELSE resolve(target[1], current_line, Buffer_len(buffer),
                                 case_respect, buffer)
        end_line == IF resolved = None THEN Buffer_len(buffer) ELSE resolved[1]
        start == IF current_line = 0 THEN 1 ELSE current_line
        done == change_loop([buffer |-> buffer, changes_made |-> 0,
                             current_line |-> current_line, panicked |-> FALSE],
                            start, end_line, from, to, max_changes)
    IN /\ undo_snapshot' = snapshot_for_undo
       /\ buffer' = done.buffer
       /\ alt_count' = alt_count + done.changes_made
       /\ current_line' = done.current_line
       /\ result' = IF done.panicked THEN Panicked
                    ELSE IF done.changes_made > 0
                    THEN ResultWithMessage(ToString(done.changes_made)
                                             \o " change(s) made")
                    ELSE Err("TargetNotFound",
                             "\"" \o TextString(from) \o "\" not found")
       /\ UNCHANGED <<current_col, filepath, pending_block, pending_operation,
                      all_filter, case_respect, stay>>

\* --------------------------------------------------------------------- ALL

\* a cmd_all that shows every line when the target is a position
cmd_all_shows_positional(target) ==
    /\ IF target # None
       THEN LET filter == [i \in 1..Buffer_len(buffer) |->
                              \/ target[1].tag \in {"Absolute", "Relative", "Star"}
                              \/ matches_line(target[1], case_respect, buffer.lines[i])]
                visible_count == Cardinality({i \in 1..Len(filter) : filter[i]})
            IN /\ all_filter' = Some(filter)
               /\ result' = ResultWithMessage(ToString(visible_count)
                                                \o " line(s) displayed")
       ELSE /\ all_filter' = None
            /\ result' = ResultWithMessage("ALL reset")
    /\ UNCHANGED <<buffer, current_line, current_col, filepath, alt_count,
                   pending_block, pending_operation, undo_snapshot,
                   case_respect, stay>>

\* Editor::cmd_all
cmd_all(target) ==
    /\ IF target # None
       THEN LET filter == [i \in 1..Buffer_len(buffer) |->
                              matches_line(target[1], case_respect, buffer.lines[i])]
                visible_count == Cardinality({i \in 1..Len(filter) : filter[i]})
            IN /\ all_filter' = Some(filter)
               /\ result' = ResultWithMessage(ToString(visible_count)
                                                \o " line(s) displayed")
       ELSE /\ all_filter' = None
            /\ result' = ResultWithMessage("ALL reset")
    /\ UNCHANGED <<buffer, current_line, current_col, filepath, alt_count,
                   pending_block, pending_operation, undo_snapshot,
                   case_respect, stay>>

\* -------------------------------------------------------------------- SORT

\* the code point of a character, for String's Ord
CharCode(c) ==
    CASE c = " " -> 32
      [] c = "A" -> 65
      [] c = "B" -> 66
      [] c = "C" -> 67
      [] c = "a" -> 97
      [] c = "b" -> 98
      [] c = "c" -> 99
      [] c = "x" -> 120

\* String::cmp(a, b) == Less
RECURSIVE str_less(_, _)
str_less(a, b) ==
    IF b = <<>> THEN FALSE
    ELSE IF a = <<>> THEN TRUE
    ELSE IF CharCode(Head(a)) # CharCode(Head(b))
         THEN CharCode(Head(a)) < CharCode(Head(b))
         ELSE str_less(Tail(a), Tail(b))

\* sort_key; col_start and col_end are Options
sort_key(line, col_start, col_end) ==
    IF col_start # None /\ col_end # None
    THEN LET s == saturating_sub(col_start[1], 1)
         IN SubSeq(line, s + 1, Min(Len(line), s + saturating_sub(col_end[1], s)))
    ELSE IF col_start # None
    THEN SubSeq(line, saturating_sub(col_start[1], 1) + 1, Len(line))
    ELSE line

\* a comparator that orders ascending whatever the direction asked for
sort_before_ascending(a, b, ascending, col_start, col_end) ==
    str_less(sort_key(a, col_start, col_end), sort_key(b, col_start, col_end))

\* a comparator that orders by the whole line whatever the columns
sort_before_whole_line(a, b, ascending, col_start, col_end) ==
    IF ascending THEN str_less(a, b) ELSE str_less(b, a)

\* the comparator cmd_sort hands to sort_by, as "a orders strictly before b"
sort_before(a, b, ascending, col_start, col_end) ==
    IF ascending
    THEN str_less(sort_key(a, col_start, col_end), sort_key(b, col_start, col_end))
    ELSE str_less(sort_key(b, col_start, col_end), sort_key(a, col_start, col_end))

\* slice::sort_by (a stable sort): each element goes after every earlier
\* element that does not order strictly after it
RECURSIVE sort_by(_, _, _, _)
sort_by(seq, ascending, col_start, col_end) ==
    IF seq = <<>> THEN <<>>
    ELSE LET rest == sort_by(SubSeq(seq, 1, Len(seq) - 1), ascending, col_start, col_end)
             x == seq[Len(seq)]
             after == {i \in 1..Len(rest) :
                         sort_before(x, rest[i], ascending, col_start, col_end)}
             k == IF after = {} THEN Len(rest) + 1
                  ELSE CHOOSE i \in after : \A j \in after : i <= j
         IN SubSeq(rest, 1, k - 1) \o <<x>> \o SubSeq(rest, k, Len(rest))

cmd_sort(target, ascending, col_start, col_end) ==
    LET start == IF current_line = 0 THEN 1 ELSE current_line
        resolved == IF target = None THEN None
                    ELSE resolve(target[1], current_line, Buffer_len(buffer),
                                 case_respect, buffer)
        end == IF resolved = None THEN Buffer_len(buffer) ELSE resolved[1]
    IN /\ undo_snapshot' = snapshot_for_undo
       /\ UNCHANGED <<current_line, current_col, filepath, pending_block,
                      pending_operation, all_filter, case_respect, stay>>
       /\ IF start > end \/ start > Buffer_len(buffer)
          THEN /\ result' = Err("InvalidCommand", "Nothing to sort")
               /\ UNCHANGED <<buffer, alt_count>>
          ELSE LET sorted == sort_by(SubSeq(buffer.lines, start, end),
                                     ascending, col_start, col_end)
               IN /\ buffer' = [lines |-> SubSeq(buffer.lines, 1, start - 1) \o sorted
                                            \o SubSeq(buffer.lines, end + 1,
                                                      Buffer_len(buffer)),
                                modified |-> TRUE]
                  /\ alt_count' = alt_count + 1
                  /\ result' = ResultWithMessage(
                                  ToString(end - start + 1) \o " line(s) sorted "
                                  \o (IF ascending THEN "ascending" ELSE "descending"))

\* ---------------------------------------------------- SET, QUERY and the rest

\* default_pf_keys: PF1..PF24 are the indices 0..23; a key's command text is
\* held as one string
default_pf_keys ==
    [i \in 0..23 |->
       CASE i = 0 -> Some("HELP")
         [] i = 2 -> Some("QUIT")
         [] i = 3 -> Some("TOP")
         [] i = 4 -> Some("BOTTOM")
         [] i = 5 -> Some("?")
         [] i = 6 -> Some("BACKWARD")
         [] i = 7 -> Some("FORWARD")
         [] i = 8 -> Some("=")
         [] i = 9 -> Some("LOCATE")
         [] i = 10 -> Some("SAVE")
         [] i = 11 -> Some("FILE")
         [] OTHER -> None]

\* Editor::pf_key: what it returns
pf_key(num) == IF num \in 1..24 THEN pf_keys[num - 1] ELSE None

\* a set_pf_key that takes a number outside 1..24 for the nearest key
set_pf_key_nearest(num, command) ==
    [pf_keys EXCEPT ![Min(Max(num, 1), 24) - 1] = command]

\* Editor::set_pf_key: the pf_keys it leaves
set_pf_key(num, command) ==
    IF num \in 1..24 THEN [pf_keys EXCEPT ![num - 1] = command] ELSE pf_keys

\* subcmd is [set, value], or [set, num, cmd] for Pf; the settings the model
\* does not hold are only stored by the code
cmd_set(subcmd) ==
    /\ case_respect' = IF subcmd.set = "Case" THEN subcmd.value = "Respect"
                       ELSE case_respect
    /\ stay' = IF subcmd.set = "Stay" THEN subcmd.value ELSE stay
    /\ pf_keys' = IF subcmd.set = "Pf"
                  THEN IF subcmd.cmd = "" THEN set_pf_key(subcmd.num, None)
                       ELSE set_pf_key(subcmd.num, Some(subcmd.cmd))
                  ELSE pf_keys
    /\ result' = ResultOk
    /\ UNCHANGED <<buffer, current_line, current_col, filepath, alt_count,
                   pending_block, pending_operation, all_filter, undo_snapshot>>

\* what is the subject, trimmed and upper-cased
cmd_query(what) ==
    /\ result' =
         CASE what = "" -> ResultWithMessage(
                   "Size=" \o ToString(Buffer_len(buffer))
                   \o " Line=" \o ToString(current_line)
                   \o " Col=" \o ToString(current_col)
                   \o " Alt=" \o ToString(alt_count))
           [] what = "SIZE" -> ResultWithMessage("Size=" \o ToString(Buffer_len(buffer)))
           [] what = "LINE" -> ResultWithMessage("Line=" \o ToString(current_line))
           [] what \in {"COLUMN", "COL"} ->
                   ResultWithMessage("Col=" \o ToString(current_col))
           [] what = "ALT" -> ResultWithMessage("Alt=" \o ToString(alt_count))
           [] OTHER -> Err("InvalidCommand", "Unknown QUERY: " \o what)
    /\ UNCHANGED <<buffer, current_line, current_col, filepath, alt_count,
                   pending_block, pending_operation, all_filter, undo_snapshot,
                   case_respect, stay>>

\* Refresh, Help, Nop and Cursor change no field the model holds
cmd_plain(r) ==
    /\ result' = r
    /\ UNCHANGED <<buffer, current_line, current_col, filepath, alt_count,
                   pending_block, pending_operation, all_filter, undo_snapshot,
                   case_respect, stay>>

cmd_help == cmd_plain(ResultWithMessage("Commands: UP DOWN TOP BOTTOM FORWARD BACKWARD LOCATE CHANGE INPUT DELETE FILE SAVE QUIT QQUIT SET QUERY"))

cmd_cursor == cmd_plain(ResultOk)


\* ---------------------------------------------------------- prefix commands

\* for i in 0..n { buffer.insert_after(after + i * step, text) }
RECURSIVE insert_each(_, _, _, _, _)
insert_each(b, after, step, text, n) ==
    IF n = 0 THEN b
    ELSE insert_each(Buffer_insert_after(b, after, text), after + step, step, text, n - 1)

\* " ".repeat(n)
spaces(n) == [i \in 1..n |-> " "]

\* only the first of the lines source_start..=source_end
texts_of_first(b, start, end) ==
    SubSeq(b.lines, Max(start, 1), Min(Max(start, 1), Buffer_len(b)))

\* the lines source_start..=source_end that exist, as the loops over
\* buffer.get(i) collect them
texts_of(b, start, end) ==
    SubSeq(b.lines, Max(start, 1), Min(end, Buffer_len(b)))

keep_prefix_rest == <<current_col, filepath, message, all_filter, case_respect, stay>>

prefix_set_current(line_num) ==
    /\ current_line' = line_num
    /\ result' = ResultOk
    /\ UNCHANGED <<buffer, alt_count, pending_block, pending_operation>>

\* a prefix Delete that drops the pending copy/move
prefix_delete_drops_pending(line_num) ==
    /\ buffer' = Buffer_delete(buffer, line_num)
    /\ alt_count' = alt_count + 1
    /\ current_line' = clamp_line(current_line, buffer')
    /\ result' = ResultOk
    /\ pending_operation' = None
    /\ UNCHANGED pending_block

\* PrefixCommand::Delete
prefix_delete(line_num) ==
    /\ buffer' = Buffer_delete(buffer, line_num)
    /\ alt_count' = alt_count + 1
    /\ current_line' = clamp_line(current_line, buffer')
    /\ result' = ResultOk
    /\ UNCHANGED <<pending_block, pending_operation>>

prefix_insert(line_num, n) ==
    /\ buffer' = insert_each(buffer, line_num, 0, <<>>, n)
    /\ alt_count' = alt_count + n
    /\ result' = ResultOk
    /\ UNCHANGED <<current_line, pending_block, pending_operation>>

prefix_duplicate(line_num, n) ==
    /\ IF Buffer_get(buffer, line_num) # None
       THEN /\ buffer' = insert_each(buffer, line_num, 1,
                                     Buffer_get(buffer, line_num)[1], n)
            /\ alt_count' = alt_count + n
       ELSE UNCHANGED <<buffer, alt_count>>
    /\ result' = ResultOk
    /\ UNCHANGED <<current_line, pending_block, pending_operation>>

prefix_shift_right(line_num, n) ==
    /\ IF Buffer_get(buffer, line_num) # None
       THEN /\ buffer' = Buffer_get_mut_set_text(buffer, line_num,
                             spaces(n) \o buffer.lines[line_num])
            /\ alt_count' = alt_count + 1
       ELSE UNCHANGED <<buffer, alt_count>>
    /\ result' = ResultOk
    /\ UNCHANGED <<current_line, pending_block, pending_operation>>

prefix_shift_left(line_num, n) ==
    /\ IF Buffer_get(buffer, line_num) # None
       THEN LET text == buffer.lines[line_num]
                k == Min(Len(text), n)
            IN IF \A i \in 1..k : text[i] = " "
               THEN /\ buffer' = Buffer_get_mut_set_text(buffer, line_num,
                                     Slice(text, k, Len(text)))
                    /\ alt_count' = alt_count + 1
               ELSE \* get_mut alone has marked the buffer modified
                    /\ buffer' = Buffer_get_mut_set_text(buffer, line_num, text)
                    /\ UNCHANGED alt_count
       ELSE UNCHANGED <<buffer, alt_count>>
    /\ result' = ResultOk
    /\ UNCHANGED <<current_line, pending_block, pending_operation>>

\* the em dash of the two "... use F or P for destination" messages is
\* written "--"
prefix_copy_move(line_num, op_type) ==
    /\ pending_operation' = Some([op_type |-> op_type, source_start |-> line_num,
                                  source_end |-> line_num])
    /\ result' = ResultWithMessage(
                    (IF op_type = "Copy" THEN "Copy" ELSE "Move")
                    \o " pending -- use F or P for destination")
    /\ UNCHANGED <<buffer, current_line, alt_count, pending_block>>

\* a test of the pending block that never finds a conflict
block_conflict_ignored(pending, block_type) == FALSE

\* if pending.command != block_type
block_conflict(pending, block_type) == pending.command # block_type

\* a range taken as typed, the pending start first
block_range_as_typed(start_line, line_num) == <<start_line, line_num>>

\* let (start, end) = if pending.start_line <= line_num { .. } else { .. }
block_range(start_line, line_num) ==
    IF start_line <= line_num THEN <<start_line, line_num>>
    ELSE <<line_num, start_line>>

\* Editor::handle_block_marker
handle_block_marker(line_num, block_type) ==
    IF pending_block # None
    THEN IF block_conflict(pending_block[1], block_type)
         THEN /\ result' = Err("PrefixError", "Conflicting block operation pending")
              /\ UNCHANGED <<buffer, current_line, alt_count, pending_block,
                             pending_operation>>
         ELSE LET start == block_range(pending_block[1].start_line, line_num)[1]
                  end   == block_range(pending_block[1].start_line, line_num)[2]
                  count == end - start + 1
              IN /\ pending_block' = None
                 /\ CASE block_type = "Delete" ->
                           /\ buffer' = Buffer_delete_range(buffer, start, end)
                           /\ alt_count' = alt_count + count
                           /\ current_line' = clamp_line(current_line, buffer')
                           /\ result' = ResultWithMessage(ToString(count)
                                                            \o " line(s) deleted")
                           /\ UNCHANGED pending_operation
                      [] block_type \in {"Copy", "Move"} ->
                           /\ pending_operation' =
                                 Some([op_type |-> block_type, source_start |-> start,
                                       source_end |-> end])
                           /\ result' = ResultWithMessage(
                                 "Block marked -- use F or P for destination")
                           /\ UNCHANGED <<buffer, current_line, alt_count>>
                      [] block_type = "Duplicate" ->
                           /\ buffer' = Buffer_insert_lines_after(buffer, end,
                                            texts_of(buffer, start, end))
                           /\ alt_count' = alt_count + count
                           /\ result' = ResultWithMessage("Block duplicated")
                           /\ UNCHANGED <<current_line, pending_operation>>
    ELSE /\ pending_block' = Some([command |-> block_type, start_line |-> line_num])
         /\ result' = ResultOk
         /\ UNCHANGED <<buffer, current_line, alt_count, pending_operation>>

\* a destination left as typed after the source lines are cut
unadjusted(insert_after, source_start, count) == insert_after

\* the destination of a move once the source lines are cut
adjusted(insert_after, source_start, count) ==
    IF insert_after >= source_start
    THEN saturating_sub(insert_after, count)
    ELSE insert_after

\* Editor::execute_pending_destination
execute_pending_destination(dest_line, after) ==
    IF pending_operation = None
    THEN /\ result' = Err("PrefixError", "No pending copy/move operation")
         /\ UNCHANGED <<buffer, current_line, alt_count, pending_block,
                        pending_operation>>
    ELSE LET o == pending_operation[1]
             texts == texts_of(buffer, o.source_start, o.source_end)
             insert_after == IF after THEN dest_line ELSE saturating_sub(dest_line, 1)
         IN /\ pending_operation' = None
            /\ UNCHANGED pending_block
            /\ IF o.op_type = "Move"
               THEN LET count == o.source_end - o.source_start + 1
                        cut == Buffer_delete_range(buffer, o.source_start, o.source_end)
                        to == adjusted(insert_after, o.source_start, count)
                    IN /\ buffer' = Buffer_insert_lines_after(cut, to, texts)
                       /\ alt_count' = alt_count + count
                       /\ current_line' = clamp_line(current_line, buffer')
                       /\ result' = ResultWithMessage(ToString(count)
                                                        \o " line(s) moved")
               ELSE /\ buffer' = Buffer_insert_lines_after(buffer, insert_after, texts)
                    /\ alt_count' = alt_count + Len(texts)
                    /\ result' = ResultWithMessage(ToString(Len(texts))
                                                     \o " line(s) copied")
                    /\ UNCHANGED current_line

\* the match of execute_prefix on the prefix command
prefix_dispatch(line_num, cmd) ==
    CASE cmd.name = "SetCurrent" -> prefix_set_current(line_num)
      [] cmd.name = "Delete" -> prefix_delete(line_num)
      [] cmd.name \in {"Insert", "Add"} -> prefix_insert(line_num, cmd.n)
      [] cmd.name = "Duplicate" -> prefix_duplicate(line_num, cmd.n)
      [] cmd.name = "ShiftRight" -> prefix_shift_right(line_num, cmd.n)
      [] cmd.name = "ShiftLeft" -> prefix_shift_left(line_num, cmd.n)
      [] cmd.name = "DeleteBlock" -> handle_block_marker(line_num, "Delete")
      [] cmd.name = "CopyBlock" -> handle_block_marker(line_num, "Copy")
      [] cmd.name = "MoveBlock" -> handle_block_marker(line_num, "Move")
      [] cmd.name = "DuplicateBlock" -> handle_block_marker(line_num, "Duplicate")
      [] cmd.name = "Copy" -> prefix_copy_move(line_num, "Copy")
      [] cmd.name = "Move" -> prefix_copy_move(line_num, "Move")
      [] cmd.name = "Following" -> execute_pending_destination(line_num, TRUE)
      [] cmd.name = "Preceding" -> execute_pending_destination(line_num, FALSE)


\* ------------------------------------------------------------ the host's API

\* history: what the call just made was, and the state it was made in
track(api, cmd, line_num) ==
    /\ op' = [api |-> api, cmd |-> cmd, line_num |-> line_num]
    /\ before' = [buffer |-> buffer, current_line |-> current_line,
                  current_col |-> current_col, filepath |-> filepath,
                  alt_count |-> alt_count, pending_block |-> pending_block,
                  pending_operation |-> pending_operation,
                  all_filter |-> all_filter, undo_snapshot |-> undo_snapshot,
                  case_respect |-> case_respect, stay |-> stay,
                  had_message |-> message # None,
                  sorted |-> IF /\ op.api = "execute"
                                /\ op.cmd.name = "Sort"
                                /\ op.cmd.ascending
                                /\ result.kind = "Ok"
                             THEN Some(op.cmd) ELSE None]
    /\ marked_len' = IF pending_operation' # None
                        /\ pending_operation' # pending_operation
                     THEN Buffer_len(buffer')
                     ELSE marked_len

\* the match of Editor::execute on the command
dispatch(cmd) ==
    CASE cmd.name = "Up" -> cmd_up(cmd.n)
      [] cmd.name = "Down" -> cmd_down(cmd.n)
      [] cmd.name = "Top" -> cmd_top
      [] cmd.name = "Bottom" -> cmd_bottom
      [] cmd.name = "Forward" -> cmd_forward(cmd.n)
      [] cmd.name = "Backward" -> cmd_backward(cmd.n)
      [] cmd.name = "Left" -> cmd_left(cmd.n)
      [] cmd.name = "Right" -> cmd_right(cmd.n)
      [] cmd.name = "Locate" -> cmd_locate(cmd.target)
      [] cmd.name = "Change" -> cmd_change(cmd.from, cmd.to, cmd.target, cmd.count)
      [] cmd.name = "Input" -> cmd_input(cmd.text)
      [] cmd.name = "Delete" -> cmd_delete(cmd.target)
      [] cmd.name = "File" -> cmd_file(cmd.write_ok)
      [] cmd.name = "Save" -> cmd_save(cmd.write_ok)
      [] cmd.name = "Quit" -> cmd_quit
      [] cmd.name = "QQuit" -> cmd_qquit
      [] cmd.name = "Get" -> cmd_get(cmd.filename, cmd.read)
      [] cmd.name = "Undo" -> cmd_undo
      [] cmd.name = "Cursor" -> cmd_cursor
      [] cmd.name = "All" -> cmd_all(cmd.target)
      [] cmd.name = "Sort" -> cmd_sort(cmd.target, cmd.ascending, cmd.col_start, cmd.col_end)
      [] cmd.name = "Set" -> cmd_set(cmd.subcmd)
      [] cmd.name = "Query" -> cmd_query(cmd.what)
      [] cmd.name = "Refresh" -> cmd_plain(ResultRefresh)
      [] cmd.name = "Help" -> cmd_help
      [] cmd.name = "Nop" -> cmd_plain(ResultOk)

\* an execute that does not clear the message before the command runs
execute_keeps_message(cmd) ==
    /\ dispatch(cmd)
    /\ message' = IF result'.kind \in {"Ok", "Panic"}
                  THEN IF result'.message # None THEN result'.message ELSE message
                  ELSE Some(ErrorDisplay(result'))
    /\ track("execute", cmd, 0)

\* Editor::execute: the message is cleared, then set from the result
execute(cmd) ==
    /\ dispatch(cmd)
    /\ message' = IF result'.kind \in {"Ok", "Panic"} THEN result'.message
                  ELSE Some(ErrorDisplay(result'))
    /\ track("execute", cmd, 0)

\* Editor::execute_prefix
execute_prefix(line_num, cmd) ==
    /\ undo_snapshot' = IF cmd.name = "SetCurrent" THEN undo_snapshot
                        ELSE snapshot_for_undo
    /\ prefix_dispatch(line_num, cmd)
    /\ UNCHANGED keep_prefix_rest
    /\ track("execute_prefix", cmd, line_num)

\* Editor::input_line
input_line(text) ==
    /\ buffer' = Buffer_insert_after(buffer, current_line, text)
    /\ current_line' = current_line + 1
    /\ alt_count' = alt_count + 1
    /\ result' = ResultOk
    /\ UNCHANGED <<current_col, filepath, message, pending_block, pending_operation,
                   all_filter, undo_snapshot, case_respect, stay>>
    /\ track("input_line", [name |-> "input_line", text |-> text], 0)

\* Editor::set_current_line
set_current_line(line) ==
    /\ current_line' = Min(line, Buffer_len(buffer))
    /\ result' = ResultOk
    /\ UNCHANGED <<buffer, current_col, filepath, alt_count, message, pending_block,
                   pending_operation, all_filter, undo_snapshot, case_respect, stay>>
    /\ track("set_current_line", [name |-> "set_current_line"], line)

\* text padded with spaces to at least n characters
pad_to(text, n) == text \o spaces(saturating_sub(n, Len(text)))

\* the text overtype_char, insert_char and delete_char leave in a line that
\* exists; col is 0-based
char_edit_text(kind, text, col, ch) ==
    CASE kind = "overtype_char" -> [pad_to(text, col + 1) EXCEPT ![col + 1] = ch]
      [] kind = "insert_char" ->
           Slice(pad_to(text, col), 0, col) \o <<ch>>
             \o Slice(pad_to(text, col), col, Len(pad_to(text, col)))
      [] kind = "delete_char" ->
           IF col < Len(text)
           THEN Slice(text, 0, col) \o Slice(text, col + 1, Len(text))
           ELSE text

\* Editor::overtype_char, Editor::insert_char, Editor::delete_char
char_edit(kind, line_num, col, ch) ==
    /\ buffer' = IF line_num = 0 \/ line_num > Buffer_len(buffer) THEN buffer
                 ELSE Buffer_get_mut_set_text(buffer, line_num,
                          char_edit_text(kind, buffer.lines[line_num], col, ch))
    /\ result' = ResultOk
    /\ UNCHANGED <<current_line, current_col, filepath, alt_count, message,
                   pending_block, pending_operation, all_filter, undo_snapshot,
                   case_respect, stay>>
    /\ track(kind, [name |-> kind, col |-> col, ch |-> ch], line_num)

\* Editor::load_file; read is what fs::read_to_string(path) yields: None (an
\* error) or Some(the file's lines)
load_file(path, read) ==
    /\ IF read = None
       THEN /\ result' = Err("FileNotFound", path)
            /\ UNCHANGED <<buffer, filepath, current_line, alt_count>>
       ELSE /\ buffer' = Buffer_from_lines(read[1])
            /\ filepath' = Some(path)
            /\ current_line' = IF read[1] = <<>> THEN 0 ELSE 1
            /\ alt_count' = 0
            /\ result' = ResultOk
    /\ UNCHANGED <<current_col, message, pending_block, pending_operation,
                   all_filter, undo_snapshot, case_respect, stay>>
    /\ track("load_file", [name |-> "load_file", path |-> path], 0)

\* ------------------------------------------------------- command parsing

\* a call of Editor::pf_key: the host is handed the key's command text
call_pf_key(num) ==
    /\ result' = [kind |-> "Ok", returned |-> pf_key(num)]
    /\ UNCHANGED <<edvars, pf_keys>>
    /\ track("pf_key", [name |-> "pf_key", num |-> num], 0)

\* a call of Editor::set_pf_key
call_set_pf_key(num, command) ==
    /\ pf_keys' = set_pf_key(num, command)
    /\ result' = ResultOk
    /\ UNCHANGED edvars
    /\ track("set_pf_key", [name |-> "set_pf_key", num |-> num, command |-> command], 0)

\* str::starts_with, str::strip_prefix
starts_with(s, p) == Len(s) >= Len(p) /\ SubSeq(s, 1, Len(p)) = p
strip_prefix(s, p) == IF starts_with(s, p) THEN Some(SubSeq(s, Len(p) + 1, Len(s))) ELSE None

\* str::trim, for the blank as the only white space
trim(s) ==
    LET inked == {i \in 1..Len(s) : s[i] # " "}
    IN IF inked = {} THEN <<>>
       ELSE SubSeq(s, CHOOSE i \in inked : \A j \in inked : i <= j,
                      CHOOSE i \in inked : \A j \in inked : i >= j)

\* split_first_word: the text before the first blank, and the trimmed rest
split_first_word(input) ==
    LET at == {i \in 1..Len(input) : input[i] = " "}
    IN IF at = {} THEN <<input, <<>>>>
       ELSE LET pos == CHOOSE i \in at : \A j \in at : i <= j
            IN <<SubSeq(input, 1, pos - 1), trim(SubSeq(input, pos, Len(input)))>>

\* COMMAND_TABLE: full name and minimum abbreviation length, in table order
COMMAND_TABLE ==
    <<[name |-> "ALL", text |-> <<"A", "L", "L">>, min_abbrev |-> 3],
      [name |-> "BACKWARD", text |-> <<"B", "A", "C", "K", "W", "A", "R", "D">>, min_abbrev |-> 1],
      [name |-> "BOTTOM", text |-> <<"B", "O", "T", "T", "O", "M">>, min_abbrev |-> 2],
      [name |-> "CHANGE", text |-> <<"C", "H", "A", "N", "G", "E">>, min_abbrev |-> 1],
      [name |-> "CURSOR", text |-> <<"C", "U", "R", "S", "O", "R">>, min_abbrev |-> 3],
      [name |-> "DELETE", text |-> <<"D", "E", "L", "E", "T", "E">>, min_abbrev |-> 3],
      [name |-> "DOWN", text |-> <<"D", "O", "W", "N">>, min_abbrev |-> 2],
      [name |-> "FILE", text |-> <<"F", "I", "L", "E">>, min_abbrev |-> 4],
      [name |-> "FORWARD", text |-> <<"F", "O", "R", "W", "A", "R", "D">>, min_abbrev |-> 1],
      [name |-> "GET", text |-> <<"G", "E", "T">>, min_abbrev |-> 3],
      [name |-> "HELP", text |-> <<"H", "E", "L", "P">>, min_abbrev |-> 4],
      [name |-> "INPUT", text |-> <<"I", "N", "P", "U", "T">>, min_abbrev |-> 1],
      [name |-> "LEFT", text |-> <<"L", "E", "F", "T">>, min_abbrev |-> 2],
      [name |-> "LOCATE", text |-> <<"L", "O", "C", "A", "T", "E">>, min_abbrev |-> 1],
      [name |-> "MACRO", text |-> <<"M", "A", "C", "R", "O">>, min_abbrev |-> 5],
      [name |-> "NEXT", text |-> <<"N", "E", "X", "T">>, min_abbrev |-> 1],
      [name |-> "QQUIT", text |-> <<"Q", "Q", "U", "I", "T">>, min_abbrev |-> 2],
      [name |-> "QUERY", text |-> <<"Q", "U", "E", "R", "Y">>, min_abbrev |-> 2],
      [name |-> "QUEUE", text |-> <<"Q", "U", "E", "U", "E">>, min_abbrev |-> 3],
      [name |-> "QUIT", text |-> <<"Q", "U", "I", "T">>, min_abbrev |-> 4],
      [name |-> "REFRESH", text |-> <<"R", "E", "F", "R", "E", "S", "H">>, min_abbrev |-> 3],
      [name |-> "RIGHT", text |-> <<"R", "I", "G", "H", "T">>, min_abbrev |-> 2],
      [name |-> "SAVE", text |-> <<"S", "A", "V", "E">>, min_abbrev |-> 2],
      [name |-> "SET", text |-> <<"S", "E", "T">>, min_abbrev |-> 3],
      [name |-> "SORT", text |-> <<"S", "O", "R", "T">>, min_abbrev |-> 4],
      [name |-> "STACK", text |-> <<"S", "T", "A", "C", "K">>, min_abbrev |-> 2],
      [name |-> "TOP", text |-> <<"T", "O", "P">>, min_abbrev |-> 1],
      [name |-> "UNDO", text |-> <<"U", "N", "D", "O">>, min_abbrev |-> 4],
      [name |-> "UP", text |-> <<"U", "P">>, min_abbrev |-> 1]>>

\* a lookup_command without the rule for QUE: the first match in table order
lookup_command_first(input) ==
    LET input_upper == to_uppercase(input)
        matches == {i \in 1..Len(COMMAND_TABLE) :
                       \/ COMMAND_TABLE[i].text = input_upper
                       \/ /\ Len(input_upper) >= COMMAND_TABLE[i].min_abbrev
                          /\ starts_with(COMMAND_TABLE[i].text, input_upper)}
    IN IF matches = {} THEN None
       ELSE Some(COMMAND_TABLE[CHOOSE i \in matches : \A j \in matches : i <= j].name)

\* lookup_command: the name of the table entry the word stands for, or None
lookup_command(input) ==
    LET input_upper == to_uppercase(input)
        exact == {i \in 1..Len(COMMAND_TABLE) : COMMAND_TABLE[i].text = input_upper}
        matches == {i \in 1..Len(COMMAND_TABLE) :
                       /\ Len(input_upper) >= COMMAND_TABLE[i].min_abbrev
                       /\ starts_with(COMMAND_TABLE[i].text, input_upper)}
        names == {COMMAND_TABLE[i].name : i \in matches}
    IN IF exact # {} THEN Some(COMMAND_TABLE[CHOOSE i \in exact : TRUE].name)
       ELSE IF Cardinality(matches) > 1 /\ "LOCATE" \in names /\ input_upper = <<"L">>
       THEN Some("LOCATE")
       ELSE IF Cardinality(matches) > 1 /\ "QUEUE" \in names /\ Len(input_upper) >= 3
       THEN Some("QUEUE")
       ELSE IF matches = {} THEN None
       ELSE Some(COMMAND_TABLE[CHOOSE i \in matches : \A j \in matches : i <= j].name)

\* a call of lookup_command, as parse_command makes it on the first word
call_lookup_command(input) ==
    /\ op' = [api |-> "lookup_command", cmd |-> [name |-> "lookup_command", input |-> input],
              line_num |-> 0]
    /\ result' = [kind |-> "Ok", returned |-> lookup_command(input)]
    /\ UNCHANGED <<edvars, before, marked_len, others>>

\* str::parse::<usize>, for the numbers of one or two digits; None is the Err
parse_usize(s) ==
    LET digits == <<"0", "1", "2", "3", "4", "5", "6", "7", "8", "9">>
        digit(c) == (CHOOSE d \in 1..10 : digits[d] = c) - 1
    IN IF Len(s) \in 1..2 /\ \A i \in 1..Len(s) : \E d \in 1..10 : digits[d] = s[i]
       THEN Some(IF Len(s) = 1 THEN digit(s[1]) ELSE 10 * digit(s[1]) + digit(s[2]))
       ELSE None

\* parse_optional_count
parse_optional_count(args) == IF args = <<>> THEN Some(1) ELSE parse_usize(args)

\* extract_delimited: the text between the leading delimiter and the next one
extract_delimited(input, delim) ==
    LET rest == Tail(input)
        at == {i \in 1..Len(rest) : rest[i] = delim}
    IN IF at = {} THEN rest
       ELSE SubSeq(rest, 1, (CHOOSE i \in at : \A j \in at : i <= j) - 1)

\* Target::parse on a text without the operators & and |: parse_simple.
\* None is the Err
Target_parse(text) ==
    LET input == trim(text)
    IN IF input = <<>> THEN None
       ELSE IF input = <<"*">> THEN Some(Star)
       ELSE IF Head(input) = ":"
       THEN LET n == parse_usize(Tail(input))
            IN IF n = None THEN None ELSE Some(Absolute(n[1]))
       ELSE IF Head(input) = "+"
       THEN IF Tail(input) = <<>> THEN Some(Relative(1))
            ELSE LET n == parse_usize(Tail(input))
                 IN IF n = None THEN None ELSE Some(Relative(n[1]))
       ELSE IF Head(input) = "-"
       THEN IF starts_with(Tail(input), <<"/">>)
            THEN Some(StringBackward(extract_delimited(Tail(input), "/")))
            ELSE LET n == parse_usize(Tail(input))
                 IN IF n = None THEN None ELSE Some(Relative(0 - n[1]))
       ELSE IF Head(input) = "/"
       THEN Some(StringForward(extract_delimited(input, "/")))
       ELSE LET n == parse_usize(input)
            IN IF n = None THEN None ELSE Some(Relative(n[1]))

\* parse_set_args: Some(command) or None (the Err), for SET PFn; the texts
\* the model parses name no other setting
parse_set_args(args) ==
    LET words == split_first_word(args)
        subargs == words[2]
        num_str == strip_prefix(to_uppercase(words[1]), <<"P", "F">>)
        num == IF num_str = None THEN None ELSE parse_usize(num_str[1])
    IN IF args = <<>> \/ num = None THEN None
       ELSE IF num[1] \notin 1..24 THEN None
       ELSE IF subargs = <<>> \/ to_uppercase(subargs) = <<"O", "F", "F">>
       THEN Some([name |-> "Set", subcmd |-> [set |-> "Pf", num |-> num[1], cmd |-> ""]])
       ELSE Some([name |-> "Set",
                  subcmd |-> [set |-> "Pf", num |-> num[1], cmd |-> TextString(subargs)]])

\* parse_command: Some(command) or None (the Err), for the commands without
\* arguments, with a count, and LOCATE, INPUT, DELETE, GET, QUERY and SET;
\* the texts the model parses name no other command
parse_command(text) ==
    LET input == trim(text)
        words == split_first_word(input)
        args == words[2]
        cmd_name == lookup_command(words[1])
        PlainCommands ==
            [TOP |-> "Top", BOTTOM |-> "Bottom", FILE |-> "File", SAVE |-> "Save",
             QUIT |-> "Quit", QQUIT |-> "QQuit", UNDO |-> "Undo",
             REFRESH |-> "Refresh", HELP |-> "Help"]
        CountedCommands ==
            [UP |-> "Up", DOWN |-> "Down", NEXT |-> "Down", FORWARD |-> "Forward",
             BACKWARD |-> "Backward", LEFT |-> "Left", RIGHT |-> "Right"]
    IN IF input = <<>> THEN Some([name |-> "Nop"])
       ELSE IF Head(input) = "/"
       THEN LET t == Target_parse(input)
            IN IF t = None THEN None ELSE Some([name |-> "Locate", target |-> t[1]])
       ELSE IF cmd_name = None THEN None
       ELSE IF cmd_name[1] \in DOMAIN PlainCommands
       THEN Some([name |-> PlainCommands[cmd_name[1]]])
       ELSE IF cmd_name[1] \in DOMAIN CountedCommands
       THEN LET n == parse_optional_count(args)
            IN IF n = None THEN None
               ELSE Some([name |-> CountedCommands[cmd_name[1]], n |-> n[1]])
       ELSE IF cmd_name[1] = "LOCATE"
       THEN LET t == Target_parse(args)
            IN IF args = <<>> \/ t = None THEN None
               ELSE Some([name |-> "Locate", target |-> t[1]])
       ELSE IF cmd_name[1] = "INPUT"
       THEN Some([name |-> "Input", text |-> IF args = <<>> THEN None ELSE Some(args)])
       ELSE IF cmd_name[1] = "DELETE"
       THEN IF args = <<>> THEN Some([name |-> "Delete", target |-> None])
            ELSE LET t == Target_parse(args)
                 IN IF t = None THEN None
                    ELSE Some([name |-> "Delete", target |-> t])
       ELSE IF cmd_name[1] = "GET"
       THEN IF args = <<>> THEN None
            ELSE Some([name |-> "Get", filename |-> TextString(args)])
       ELSE IF cmd_name[1] = "QUERY"
       THEN Some([name |-> "Query", what |-> TextString(to_uppercase(trim(args)))])
       ELSE IF cmd_name[1] = "SET" THEN parse_set_args(args)
       ELSE None

\* ------------------------------------------------------------ macro engine
\* While a macro runs the editor lives behind the shared handle and the
\* caller's variable holds a placeholder: the editor variables of this module
\* are then the editor behind the handle, the one the macro's commands act on.

\* Editor::current_line_text
current_line_text ==
    IF current_line = 0 \/ Buffer_get(buffer, current_line) = None THEN <<>>
    ELSE Buffer_get(buffer, current_line)[1]

\* populate_extract_vars: the stem variables (STEM_n for STEM.n), from the
\* editor as it is now
populate_extract_vars ==
    LET at_tof == current_line = 0
        at_eof == current_line >= Buffer_len(buffer)
        OnOff(b) == IF b THEN "ON" ELSE "OFF"
    IN [CURLINE_1 |-> current_line,
        CURLINE_2 |-> OnOff(at_tof),
        CURLINE_3 |-> current_line_text,
        SIZE_1 |-> Buffer_len(buffer),
        LINE_1 |-> current_line,
        COLUMN_1 |-> current_col,
        ALT_1 |-> alt_count,
        TOF_1 |-> OnOff(at_tof),
        EOF_1 |-> OnOff(at_eof),
        MODIFIED_1 |-> OnOff(buffer.modified),
        CASE_1 |-> IF case_respect THEN "RESPECT" ELSE "IGNORE",
        STAY_1 |-> OnOff(stay),
        LASTMSG_1 |-> IF message = None THEN "" ELSE message[1]]

\* the editor's fields, as run_macro finds them
Editor_fields ==
    [buffer |-> buffer, current_line |-> current_line, current_col |-> current_col,
     filepath |-> filepath, alt_count |-> alt_count, message |-> message,
     pending_block |-> pending_block, pending_operation |-> pending_operation,
     all_filter |-> all_filter, undo_snapshot |-> undo_snapshot,
     case_respect |-> case_respect, stay |-> stay]

\* run_macro up to the start of the evaluator: a source that does not lex or
\* parse is an error before anything is moved; otherwise the stem variables
\* are set, the editor is swapped for a placeholder and put behind the
\* handle, of which the handler takes a second reference
run_macro_begin(parses) ==
    /\ macro_run.phase = "idle"
    /\ IF parses
       THEN /\ macro_run' = [phase |-> "running", owners |-> 2,
                             caller |-> "placeholder",
                             stems |-> Some(populate_extract_vars),
                             call |-> None, at_start |-> Some(Editor_fields),
                             ran |-> {}]
            /\ UNCHANGED result
       ELSE /\ result' = Err("InvalidCommand", "REXX syntax error")
            /\ UNCHANGED macro_run
    /\ UNCHANGED edvars
    /\ track("run_macro", [name |-> "run_macro", phase |-> "begin"], 0)

\* the handler's words for the command text: a leading "COMMAND " or
\* "command " is stripped, then the white space around the rest
cmd_text_of(command) ==
    LET upper == strip_prefix(command, <<"C", "O", "M", "M", "A", "N", "D", " ">>)
        lower == strip_prefix(command, <<"c", "o", "m", "m", "a", "n", "d", " ">>)
    IN trim(IF upper # None THEN upper[1]
            ELSE IF lower # None THEN lower[1]
            ELSE command)

\* a return code that tells no error from another
return_code_general(r) == IF r.kind = "Ok" THEN 0 ELSE 1

\* the handler's return code for what execute returned
return_code(r) ==
    CASE r.kind = "Ok" -> 0
      [] r.kind = "TargetNotFound" -> 2
      [] r.kind \in {"FileNotFound", "Io"} -> 5
      [] OTHER -> 1

\* an EXTRACT that sets the stem variables anew
extract_refreshed(stems) == Some(populate_extract_vars)

\* the handler on EXTRACT: it returns at once, and the variables stay
extract(stems) == stems

\* what the file system adds to a parsed command when it runs
supplied(cmd, io) ==
    CASE cmd.name \in {"File", "Save"} -> [name |-> cmd.name, write_ok |-> io.write_ok]
      [] cmd.name = "Get" ->
            [name |-> "Get", filename |-> cmd.filename, read |-> io.read]
      [] OTHER -> cmd

\* a handler call that leaves the editor alone and returns rc
handled(addr_env, command, rc, stems) ==
    /\ macro_run' = [macro_run EXCEPT
                        !.call = Some([addr_env |-> addr_env, command |-> command,
                                       rc |-> rc]),
                        !.stems = stems]
    /\ UNCHANGED <<edvars, result>>
    /\ track("handler", [name |-> "handler"], 0)

\* the command handler run_macro installs
handler(addr_env, command, io) ==
    LET addr_upper == to_uppercase(addr_env)
        cmd_text == cmd_text_of(command)
        parsed == parse_command(cmd_text)
    IN /\ macro_run.phase = "running"
       /\ IF addr_upper # <<"X", "E", "D", "I", "T">> /\ addr_upper # <<"C", "O", "M", "M", "A", "N", "D">>
          THEN handled(addr_env, command, None, macro_run.stems)
          ELSE IF cmd_text = <<>>
          THEN handled(addr_env, command, Some(0), macro_run.stems)
          ELSE IF starts_with(to_uppercase(cmd_text), <<"E", "X", "T", "R", "A", "C", "T", " ">>)
          THEN handled(addr_env, command, Some(0), extract(macro_run.stems))
          ELSE IF parsed = None
          THEN handled(addr_env, command, Some(3), macro_run.stems)
          ELSE /\ execute(supplied(parsed[1], io))
               /\ macro_run' = [macro_run EXCEPT
                     !.call = Some([addr_env |-> addr_env, command |-> command,
                                    rc |-> IF result'.kind = "Panic" THEN None
                                           ELSE Some(return_code(result'))]),
                     !.ran = @ \cup {parsed[1].name}]

\* a run_macro whose runtime error returns before the editor is put back
run_macro_end_early(outcome) ==
    /\ macro_run.phase = "running"
    /\ IF outcome = "Ok"
       THEN /\ macro_run' = [macro_run EXCEPT !.phase = "idle", !.owners = @ - 1,
                                              !.caller = "editor"]
            /\ result' = ResultOk
            /\ UNCHANGED edvars
       ELSE /\ macro_run' = [macro_run EXCEPT !.phase = "idle"]
            /\ result' = Err("InvalidCommand", "REXX runtime error")
            /\ buffer' = Buffer_new
            /\ current_line' = 0
            /\ current_col' = 1
            /\ filepath' = None
            /\ alt_count' = 0
            /\ message' = None
            /\ pending_block' = None
            /\ pending_operation' = None
            /\ all_filter' = None
            /\ undo_snapshot' = None
            /\ case_respect' = FALSE
            /\ stay' = TRUE
    /\ track("run_macro", [name |-> "run_macro", phase |-> "end"], 0)

\* run_macro from the evaluator's return: the evaluator is dropped and with
\* it the handler's reference, the handle is unwrapped, the editor is moved
\* back into the caller's variable, and then the outcome is returned
run_macro_end(outcome) ==
    /\ macro_run.phase = "running"
    /\ macro_run' = [macro_run EXCEPT !.phase = "idle", !.owners = @ - 1,
                                      !.caller = "editor"]
    /\ result' = IF macro_run.owners - 1 # 1 THEN Panicked
                 ELSE IF outcome = "Ok" THEN ResultOk
                 ELSE Err("InvalidCommand", "REXX runtime error")
    /\ UNCHANGED edvars
    /\ track("run_macro", [name |-> "run_macro", phase |-> "end"], 0)

\* ------------------------------------------------------------------- ring
\* An editor of the ring is the file it was made from: Editor::new() has
\* none, and add_file makes one from the path and the lines read.

Ring_new == [editors |-> <<>>, current |-> 0]

Editor_new == [filepath |-> None, lines |-> <<>>]

\* a call on the ring: the call, what it returned and the ring it found
ring_call(name, returned) ==
    /\ op' = [api |-> "Ring", cmd |-> [name |-> name], line_num |-> 0]
    /\ result' = returned
    /\ before' = [ring |-> ring]
    /\ UNCHANGED <<edvars, marked_len, macro_run, free_buffer, pf_keys, saved, marked>>

\* Ring::add_empty
add_empty ==
    /\ ring' = [editors |-> Append(ring.editors, Editor_new),
                current |-> Len(ring.editors)]
    /\ ring_call("add_empty", ResultOk)

\* Ring::add_file: a file that cannot be read is an error and nothing is added
add_file(path, read) ==
    /\ ring' = IF read = None THEN ring
               ELSE [editors |-> Append(ring.editors,
                                        [filepath |-> Some(path), lines |-> read[1]]),
                     current |-> Len(ring.editors)]
    /\ ring_call("add_file", IF read = None THEN Err("FileNotFound", path) ELSE ResultOk)

\* Ring::cycle_next
cycle_next ==
    /\ ring' = IF ring.editors = <<>> THEN ring
               ELSE [ring EXCEPT !.current = (ring.current + 1) % Len(ring.editors)]
    /\ ring_call("cycle_next", IF ring.editors = <<>> THEN ErrBare("NoFile") ELSE ResultOk)

\* Ring::prev
prev ==
    /\ ring' = IF ring.editors = <<>> THEN ring
               ELSE IF ring.current = 0
               THEN [ring EXCEPT !.current = Len(ring.editors) - 1]
               ELSE [ring EXCEPT !.current = ring.current - 1]
    /\ ring_call("prev", IF ring.editors = <<>> THEN ErrBare("NoFile") ELSE ResultOk)

\* a remove_current that leaves the index where it was
remove_current_unmoved ==
    /\ ring' = IF ring.editors = <<>> THEN ring
               ELSE [ring EXCEPT
                       !.editors = SubSeq(ring.editors, 1, ring.current)
                                   \o SubSeq(ring.editors, ring.current + 2,
                                             Len(ring.editors))]
    /\ ring_call("remove_current", ResultOk)

\* Ring::remove_current: Vec::remove at an index past the end panics
remove_current ==
    IF ring.editors = <<>>
    THEN UNCHANGED ring /\ ring_call("remove_current", ResultOk)
    ELSE IF ring.current >= Len(ring.editors)
    THEN UNCHANGED ring /\ ring_call("remove_current", Panicked)
    ELSE LET rest == SubSeq(ring.editors, 1, ring.current)
                     \o SubSeq(ring.editors, ring.current + 2, Len(ring.editors))
         IN /\ ring' = [editors |-> rest,
                        current |-> IF ring.current >= Len(rest) /\ rest # <<>>
                                    THEN Len(rest) - 1
                                    ELSE ring.current]
            /\ ring_call("remove_current", ResultOk)

\* ----------------------------------------------------- a buffer of the host
\* Buffer is a public type: the host makes one and calls it without an editor.

\* a call on the buffer: the call, the buffer it found, and the call before it
\* with the buffer that one found
buffer_call(cmd) ==
    /\ op' = [api |-> "Buffer", cmd |-> cmd, line_num |-> 0]
    /\ result' = ResultOk
    /\ before' = [buffer |-> free_buffer,
                  last |-> IF op.api = "Buffer"
                           THEN Some([cmd |-> op.cmd, buffer |-> before.buffer])
                           ELSE None]
    /\ UNCHANGED <<edvars, marked_len, macro_run, ring, pf_keys, saved, marked>>

\* Buffer::from_lines
from_lines(ls) ==
    /\ free_buffer' = Buffer_from_lines(ls)
    /\ buffer_call([name |-> "from_lines", lines |-> ls])

\* Buffer::insert_after
insert_after(after_line, text) ==
    /\ free_buffer' = Buffer_insert_after(free_buffer, after_line, text)
    /\ buffer_call([name |-> "insert_after", after_line |-> after_line, text |-> text])

\* Buffer::delete
delete(line_num) ==
    /\ free_buffer' = Buffer_delete(free_buffer, line_num)
    /\ buffer_call([name |-> "delete", line_num |-> line_num])

\* ------------------------------------------------------ initial state, steps

\* Editor::new
Init ==
    /\ buffer = Buffer_new
    /\ current_line = 0
    /\ current_col = 1
    /\ filepath = None
    /\ alt_count = 0
    /\ message = None
    /\ pending_block = None
    /\ pending_operation = None
    /\ all_filter = None
    /\ undo_snapshot = None
    /\ case_respect = FALSE
    /\ stay = TRUE
    /\ op = [api |-> "new", cmd |-> [name |-> "new"], line_num |-> 0]
    /\ result = ResultOk
    /\ before = [buffer |-> Buffer_new, current_line |-> 0, current_col |-> 1,
                 filepath |-> None, alt_count |-> 0, pending_block |-> None,
                 pending_operation |-> None, all_filter |-> None,
                 undo_snapshot |-> None, case_respect |-> FALSE, stay |-> TRUE,
                 had_message |-> FALSE, sorted |-> None]
    /\ marked_len = 0
    /\ steps = 0
    /\ macro_run = [phase |-> "idle", owners |-> 0, caller |-> "editor",
                    stems |-> None, call |-> None, at_start |-> None, ran |-> {}]
    /\ ring = Ring_new
    /\ free_buffer = Buffer_new
    /\ pf_keys = default_pf_keys
    /\ saved = <<>>
    /\ marked = None

\* the part of the state space explored
Within ==
    /\ Buffer_len(buffer) <= MaxLines
    /\ \A i \in 1..Buffer_len(buffer) : Len(buffer.lines[i]) <= MaxText
    /\ alt_count \in 0..MaxAlt
    /\ current_col <= MaxCol


\* ------------------------------------------------------- the host's inputs

Counts == {1}
LineNums == 0..(MaxLines + 1)
Cols == {0}
A == <<"a">>
B == <<"b">>
X == <<"x">>
\* what a file read may hold
Files == {<<>>, <<B, A>>}
Reads == {None} \cup {Some(f) : f \in Files}

DeleteTargets == {None, Some(Star), Some(Relative(2)), Some(Absolute(1))}
LocateTargets == {StringForward(A), StringBackward(B), Absolute(2)}

PrefixSimple ==
    {[name |-> n] : n \in {"SetCurrent", "Delete", "Copy", "Move", "Following", "Preceding"}}
PrefixBlock ==
    {[name |-> n] : n \in {"DeleteBlock", "CopyBlock", "MoveBlock", "DuplicateBlock"}}
PrefixCounted ==
    {[name |-> n, n |-> k] : n \in {"Insert", "Add", "Duplicate", "ShiftRight", "ShiftLeft"},
                             k \in {1}}

\* a step of Spec: one more call made, and the state within the bounds
Ready == steps < MaxSteps /\ result.kind # "Panic"
Bounded == steps' = steps + 1 /\ Within' /\ UNCHANGED others

Next ==
    \/ Ready /\ \E n \in {"Up", "Down", "Left", "Right"}, k \in Counts :
          execute([name |-> n, n |-> k]) /\ Bounded
    \/ Ready /\ \E n \in {"Forward", "Backward"} :
          execute([name |-> n, n |-> 1]) /\ Bounded
    \/ Ready /\ \E n \in {"Top", "Bottom", "Quit", "QQuit", "Cursor", "Refresh", "Help", "Nop"} :
          execute([name |-> n]) /\ Bounded
    \/ Ready /\ execute([name |-> "Undo"]) /\ Bounded
    \/ Ready /\ \E t \in LocateTargets :
          execute([name |-> "Locate", target |-> t]) /\ Bounded
    \/ Ready /\ \E c \in {None, Some(2)} :
          execute([name |-> "Change", from |-> A, to |-> B, target |-> None, count |-> c])
          /\ Bounded
    \/ Ready /\ \E t \in {None, Some(X)} :
          execute([name |-> "Input", text |-> t]) /\ Bounded
    \/ Ready /\ \E t \in DeleteTargets :
          execute([name |-> "Delete", target |-> t]) /\ Bounded
    \/ Ready /\ \E n \in {"File", "Save"}, w \in BOOLEAN :
          execute([name |-> n, write_ok |-> w]) /\ Bounded
    \/ Ready /\ \E r \in Reads :
          execute([name |-> "Get", filename |-> "f", read |-> r]) /\ Bounded
    \/ Ready /\ \E t \in {None, Some(StringForward(A))} :
          execute([name |-> "All", target |-> t]) /\ Bounded
    \/ Ready /\ \E a \in BOOLEAN :
          execute([name |-> "Sort", target |-> None, ascending |-> a,
                   col_start |-> None, col_end |-> None]) /\ Bounded
    \/ Ready /\ execute([name |-> "Set", subcmd |-> [set |-> "Number", value |-> TRUE]])
          /\ Bounded
    \/ Ready /\ \E w \in {"SIZE", "FOO"} :
          execute([name |-> "Query", what |-> w]) /\ Bounded
    \* SetCurrent, Delete and the block markers are typed at every line; the
    \* counted commands, and the copy and move commands that SpecPrefix types
    \* at every line, at the first line and at line MaxLines, as are the
    \* character edits
    \/ Ready /\ \E n \in LineNums, cmd \in PrefixSimple \cup PrefixBlock \cup PrefixCounted :
          /\ cmd.name \notin {"SetCurrent", "Delete", "DeleteBlock", "CopyBlock",
                              "MoveBlock", "DuplicateBlock"}
                => n \in {1, MaxLines}
          /\ execute_prefix(n, cmd) /\ Bounded
    \/ Ready /\ \E t \in {X} : input_line(t) /\ Bounded
    \/ Ready /\ \E n \in LineNums : set_current_line(n) /\ Bounded
    \/ Ready /\ \E k \in {"overtype_char", "insert_char", "delete_char"},
                   n \in {1, MaxLines}, c \in Cols :
          char_edit(k, n, c, "x") /\ Bounded
    \/ Ready /\ \E r \in Reads : load_file("f", r) /\ Bounded

Spec == Init /\ [][Next]_vars

\* a step of SpecPrefix: the prefix area's delete, copy and move commands on
\* a loaded file, in behaviours one call longer than those of Spec
ReadyPrefix == steps < MaxPrefixSteps /\ result.kind # "Panic"
WithinPrefix ==
    /\ Buffer_len(buffer) <= MaxPrefixLines
    /\ alt_count \in 0..MaxPrefixLines
\* the source lines are noted when a copy or move command, or the marker
\* that closes a copy or move block, sets pending_operation; the note is kept
\* by a destination, by a call that leaves the lines alone, and by a prefix
\* Delete of a line above the source range
BoundedPrefix ==
    /\ steps' = steps + 1
    /\ WithinPrefix'
    /\ marked' =
          IF /\ result'.kind = "Ok"
             /\ \/ op'.cmd.name \in {"Copy", "Move"}
                \/ op'.cmd.name \in {"CopyBlock", "MoveBlock"} /\ pending_block # None
          THEN Some(texts_of(buffer', pending_operation'[1].source_start,
                             pending_operation'[1].source_end))
          ELSE IF \/ op'.cmd.name \in {"Following", "Preceding"}
                  \/ buffer'.lines = buffer.lines
                  \/ /\ op'.cmd.name = "Delete"
                     /\ pending_operation # None
                     /\ op'.line_num < pending_operation[1].source_start
          THEN marked
          ELSE None
    /\ UNCHANGED <<macro_run, ring, free_buffer, pf_keys, saved>>

\* what a file read may hold in SpecPrefix
PrefixFiles == {<<>>, <<B, A>>, <<A, B, X>>}
PrefixReads == {None} \cup {Some(f) : f \in PrefixFiles}
PrefixLineNums == 0..MaxPrefixLines
PrefixMarks ==
    {[name |-> n] : n \in {"CopyBlock", "MoveBlock"}}
PrefixMoves ==
    {[name |-> n] : n \in {"Delete", "Copy", "Move", "Following", "Preceding"}}

NextPrefix ==
    \/ ReadyPrefix /\ \E r \in PrefixReads : load_file("f", r) /\ BoundedPrefix
    \/ ReadyPrefix /\ \E n \in PrefixLineNums, cmd \in PrefixMarks :
          execute_prefix(n, cmd) /\ BoundedPrefix
    \/ ReadyPrefix /\ \E n \in PrefixLineNums, cmd \in PrefixMoves :
          execute_prefix(n, cmd) /\ BoundedPrefix

SpecPrefix == Init /\ [][NextPrefix]_vars

\* a step of SpecSearch: moving, searching and changing in a loaded file,
\* with and without an ALL filter, in either case setting
ReadySearch == steps < MaxSearchSteps /\ result.kind # "Panic"
BoundedSearch == steps' = steps + 1 /\ UNCHANGED others

\* what a file read may hold in SpecSearch: lines with and without "a", in
\* either case, and a line that starts with U+0131
Mixed == <<<<"a", "a">>, B, <<"A">>, A>>
Dotless == <<<<"C4", "B1", "a", "b">>, B>>
SearchFiles == {Mixed, Dotless}
SearchReads == {None} \cup {Some(f) : f \in SearchFiles}
SearchLineNums == 0..MaxSearchLines
Moves == 1..MaxMove
SearchTargets == {StringForward(A), StringBackward(A), StringForward(B)}
\* the targets of ALL: none, a string, a position, a conjunction, a disjunction
AllTargets ==
    {None, Some(StringForward(A)), Some(Absolute(1)),
     Some(And(StringForward(A), StringForward(B))),
     Some(Or(StringForward(B), StringBackward(<<"A">>)))}

NextSearch ==
    \/ ReadySearch /\ \E r \in SearchReads : load_file("f", r) /\ BoundedSearch
    \/ ReadySearch /\ \E v \in {"Respect", "Mixed"} :
          execute([name |-> "Set", subcmd |-> [set |-> "Case", value |-> v]])
          /\ BoundedSearch
    \/ ReadySearch /\ execute([name |-> "Set", subcmd |-> [set |-> "Stay", value |-> FALSE]])
          /\ BoundedSearch
    \/ ReadySearch /\ \E t \in AllTargets :
          execute([name |-> "All", target |-> t]) /\ BoundedSearch
    \/ ReadySearch /\ \E n \in {"Up", "Down"}, k \in Moves :
          execute([name |-> n, n |-> k]) /\ BoundedSearch
    \/ ReadySearch /\ \E t \in SearchTargets :
          execute([name |-> "Locate", target |-> t]) /\ BoundedSearch
    \/ ReadySearch /\ \E from \in {A, B}, c \in {None, Some(2)} :
          execute([name |-> "Change", from |-> from, to |-> X, target |-> None,
                   count |-> c])
          /\ BoundedSearch
    \/ ReadySearch /\ \E n \in SearchLineNums :
          execute_prefix(n, [name |-> "SetCurrent"]) /\ BoundedSearch

SpecSearch == Init /\ [][NextSearch]_vars

\* a step of SpecSort: sorting ranges of a loaded file by the whole line or
\* by a column key, from any current line
ReadySort == steps < MaxSortSteps /\ result.kind # "Panic"
BoundedSort == steps' = steps + 1 /\ UNCHANGED others

\* what a file read may hold in SpecSort: lines that differ where their
\* first column agrees, and two lines out of order
Ties == <<<<"a", "b">>, <<"a", "a">>, <<"b", "a">>>>
SortFiles == {Ties, <<B, A>>}
SortReads == {None} \cup {Some(f) : f \in SortFiles}
SortLineNums == 0..MaxSortLines
SortTargets == {None, Some(Relative(1))}
\* the (col_start, col_end) of a SORT: the whole line, column 1, from column 2
SortCols == {<<None, None>>, <<Some(1), Some(1)>>, <<Some(2), None>>}

NextSort ==
    \/ ReadySort /\ \E r \in SortReads : load_file("f", r) /\ BoundedSort
    \/ ReadySort /\ \E t \in SortTargets, a \in BOOLEAN, c \in SortCols :
          execute([name |-> "Sort", target |-> t, ascending |-> a,
                   col_start |-> c[1], col_end |-> c[2]])
          /\ BoundedSort
    \/ ReadySort /\ \E n \in SortLineNums :
          execute_prefix(n, [name |-> "SetCurrent"]) /\ BoundedSort

SpecSort == Init /\ [][NextSort]_vars

\* a step of SpecMacro: a file is loaded, a block or a copy is marked, and a
\* macro runs: any number of commands go to the handler, under any address,
\* and the evaluator ends the run with or without a runtime error
ReadyMacro == steps < MaxMacroSteps /\ result.kind # "Panic"
BoundedMacro ==
    steps' = steps + 1 /\ UNCHANGED <<ring, free_buffer, pf_keys, saved, marked>>
Idle == macro_run.phase = "idle"

MacroReads == {None, Some(<<B, A>>)}
XEDIT == <<"X", "E", "D", "I", "T">>
OtherAddresses == {<<"x", "e", "d", "i", "t">>, <<"C", "O", "M", "M", "A", "N", "D">>, <<"S", "Y", "S", "T", "E", "M">>}
MacroCommands ==
    {<<>>,
     <<"C", "O", "M", "M", "A", "N", "D", " ", "T", "O", "P">>,
     <<"c", "o", "m", "m", "a", "n", "d", " ", "b", "o", "t", "t", "o", "m">>,
     <<"C", "o", "m", "m", "a", "n", "d", " ", "T", "O", "P">>,
     <<"E", "X", "T", "R", "A", "C", "T", " ", "/", "C", "U", "R", "L", "I", "N", "E", "/">>,
     <<"e", "x", "t", "r", "a", "c", "t", " ", "/", "s", "i", "z", "e", "/">>,
     <<"E", "X", "T", "R", "A", "C", "T">>,
     <<"/", "a", "/">>,
     <<"L", " ", "/", "z", "z", "/">>,
     <<"F", "O", "O">>,
     <<"U", "P", " ", "x">>,
     <<"N">>,
     <<"I", "N", "P", "U", "T", " ", "x">>,
     <<"D", "E", "L">>,
     <<"Q", "U", "I", "T">>,
     <<"Q", "U", " ", "F", "O", "O">>,
     <<"U", "N", "D", "O">>}
FileCommands == {<<"S", "A", "V", "E">>, <<"G", "E", "T", " ", "f">>}
FileSystems == [write_ok : BOOLEAN, read : {None, Some(<<X>>)}]
NoFileSystem == [write_ok |-> FALSE, read |-> None]

NextMacro ==
    \/ ReadyMacro /\ Idle /\ \E r \in MacroReads : load_file("f", r)
          /\ BoundedMacro /\ UNCHANGED macro_run
    \/ ReadyMacro /\ Idle /\ \E n \in 1..2, c \in {"DeleteBlock", "Copy"} :
          execute_prefix(n, [name |-> c])
          /\ BoundedMacro /\ UNCHANGED macro_run
    \/ ReadyMacro /\ \E parses \in BOOLEAN : run_macro_begin(parses) /\ BoundedMacro
    \/ ReadyMacro /\ \E c \in MacroCommands :
          handler(XEDIT, c, NoFileSystem) /\ BoundedMacro
    \/ ReadyMacro /\ \E c \in FileCommands, io \in FileSystems :
          handler(XEDIT, c, io) /\ BoundedMacro
    \/ ReadyMacro /\ \E a \in OtherAddresses :
          handler(a, <<"C", "O", "M", "M", "A", "N", "D", " ", "T", "O", "P">>, NoFileSystem) /\ BoundedMacro
    \/ ReadyMacro /\ \E outcome \in {"Ok", "Error"} :
          run_macro_end(outcome) /\ BoundedMacro

SpecMacro == Init /\ [][NextMacro]_vars

\* a step of SpecRing: the calls on a ring, in any order
ReadyRing == steps < MaxRingSteps /\ result.kind # "Panic"
BoundedRing == steps' = steps + 1
RingReads == {None, Some(<<A>>)}

NextRing ==
    \/ ReadyRing /\ add_empty /\ BoundedRing
    \/ ReadyRing /\ \E path \in {"f", "g"}, r \in RingReads :
          add_file(path, r) /\ BoundedRing
    \/ ReadyRing /\ cycle_next /\ BoundedRing
    \/ ReadyRing /\ prev /\ BoundedRing
    \/ ReadyRing /\ remove_current /\ BoundedRing

SpecRing == Init /\ [][NextRing]_vars

\* a step of SpecBuffer: the host makes a buffer from lines, inserts a line
\* after any line number, or deletes the line of any number
ReadyBuffer == steps < MaxBufferSteps
BoundedBuffer == steps' = steps + 1

NextBuffer ==
    \/ ReadyBuffer /\ \E ls \in {<<>>, <<B, A>>} : from_lines(ls) /\ BoundedBuffer
    \/ ReadyBuffer /\ \E n \in 0..MaxAfter, x \in {A, X} :
          insert_after(n, x) /\ BoundedBuffer
    \/ ReadyBuffer /\ \E n \in 0..(MaxAfter + 1) : delete(n) /\ BoundedBuffer

SpecBuffer == Init /\ [][NextBuffer]_vars


\* a step of SpecQuit: a file is loaded, edited by commands, typed lines and
\* typed characters, saved, the last change undone, and QUIT tried
ReadyQuit == steps < MaxQuitSteps /\ result.kind # "Panic"
BoundedQuit ==
    /\ steps' = steps + 1
    /\ saved' = IF /\ result'.kind = "Ok"
                   /\ \/ op'.api = "load_file"
                      \/ op'.api = "execute" /\ op'.cmd.name \in {"Save", "File"}
                THEN buffer'.lines
                ELSE saved
    /\ UNCHANGED <<macro_run, ring, free_buffer, pf_keys, marked>>

NextQuit ==
    \/ ReadyQuit /\ \E r \in {None, Some(<<B, A>>)} : load_file("f", r) /\ BoundedQuit
    \/ ReadyQuit /\ input_line(X) /\ BoundedQuit
    \/ ReadyQuit /\ execute([name |-> "Input", text |-> Some(X)]) /\ BoundedQuit
    \/ ReadyQuit /\ execute([name |-> "Delete", target |-> None]) /\ BoundedQuit
    \/ ReadyQuit /\ execute_prefix(1, [name |-> "Delete"]) /\ BoundedQuit
    \/ ReadyQuit /\ char_edit("overtype_char", 1, 0, "x") /\ BoundedQuit
    \/ ReadyQuit /\ \E n \in {"File", "Save"}, w \in BOOLEAN :
          execute([name |-> n, write_ok |-> w]) /\ BoundedQuit
    \/ ReadyQuit /\ execute([name |-> "Undo"]) /\ BoundedQuit
    \/ ReadyQuit /\ execute([name |-> "Quit"]) /\ BoundedQuit

SpecQuit == Init /\ [][NextQuit]_vars

\* a step of SpecLookup: a first word is looked up in the command table
ReadyLookup == steps < MaxLookupSteps
BoundedLookup == steps' = steps + 1

\* a text in lower case, and with only its first letter in upper case
Lower(s) == [i \in 1..Len(s) |-> CHOOSE c \in DOMAIN UpperMap : UpperMap[c] = s[i]]
Capital(s) == [i \in 1..Len(s) |-> IF i = 1 THEN s[i] ELSE Lower(s)[i]]
\* every name of the table and every text a name begins with, however short
Abbreviations ==
    {SubSeq(COMMAND_TABLE[i].text, 1, Min(n, Len(COMMAND_TABLE[i].text))) :
        i \in 1..Len(COMMAND_TABLE), n \in 0..MaxName}
\* texts that no name begins with, among them a name with a letter more and
\* the dotless i, whose upper case is I
Strangers ==
    {<<"X">>, <<"L", "F">>, <<"Q", "U", "X">>, <<"U", "P", "P">>,
     <<"Q", "U", "I", "T", "S">>, <<"Q", "Q", "Q">>, <<"C4", "B1">>,
     <<"C4", "B1", "N">>, <<"1">>, <<" ">>}
Words ==
    Abbreviations \cup {Lower(w) : w \in Abbreviations}
                  \cup {Capital(w) : w \in Abbreviations} \cup Strangers

NextLookup ==
    ReadyLookup /\ \E input \in Words : call_lookup_command(input) /\ BoundedLookup

SpecLookup == Init /\ [][NextLookup]_vars

\* a step of SpecPf: the host reads and sets PF keys, by number and by the
\* SET PFn command, typed or built
ReadyPf == steps < MaxPfSteps
BoundedPf ==
    steps' = steps + 1 /\ UNCHANGED <<macro_run, ring, free_buffer, saved, marked>>

PfNums == {0, 1, 2, 24, 25}
PfTexts == {"", "TOP"}
PfCommands ==
    {<<"S", "E", "T", " ", "P", "F", "1">>,
     <<"S", "E", "T", " ", "P", "F", "1", " ", "O", "F", "F">>,
     <<"s", "e", "t", " ", "p", "f", "2", " ", "o", "f", "f">>,
     <<"S", "E", "T", " ", "P", "F", "2", "4", " ", "O", "f", "f">>,
     <<"S", "E", "T", " ", "P", "F", "3", " ">>,
     <<"S", "E", "T", " ", "P", "F", "2", " ", "T", "O", "P">>,
     <<"S", "E", "T", " ", "P", "F", "2", "4", " ", "o", "f", "f", " ", "x">>,
     <<"S", "E", "T", " ", "P", "F", "2", "5", " ", "O", "F", "F">>,
     <<"S", "E", "T", " ", "P", "F", "0">>,
     <<"S", "E", "T", " ", "P", "F", "X", " ", "O", "F", "F">>}

NextPf ==
    \/ ReadyPf /\ \E num \in PfNums : call_pf_key(num) /\ BoundedPf
    \/ ReadyPf /\ \E num \in PfNums, text \in PfTexts :
          call_set_pf_key(num, IF text = "" THEN None ELSE Some(text)) /\ BoundedPf
    \/ ReadyPf /\ \E num \in PfNums, text \in PfTexts :
          execute([name |-> "Set", subcmd |-> [set |-> "Pf", num |-> num, cmd |-> text]])
          /\ BoundedPf
    \/ ReadyPf /\ \E text \in PfCommands :
          /\ parse_command(text) # None
          /\ execute(parse_command(text)[1]) /\ BoundedPf

SpecPf == Init /\ [][NextPf]_vars


\* ------------------------------------------------------------- properties

\* what the last call was
Command(name) == op.api = "execute" /\ op.cmd.name = name
Prefix(name) == op.api = "execute_prefix" /\ op.cmd.name = name
Succeeded == result.kind = "Ok"
\* a load or save event: load_file or save_file (SAVE, FILE) that succeeded
LoadOrSave ==
    Succeeded /\ (op.api = "load_file" \/ Command("Save") \/ Command("File"))
\* the lines, cursor and alt_count are those the last call was made with
SameText ==
    /\ buffer.lines = before.buffer.lines
    /\ current_line = before.current_line
    /\ alt_count = before.alt_count

\* C1: after any sequence of operations, 0 <= current_line <= buffer length.
C1_CurrentLineInBuffer ==
    current_line >= 0 /\ current_line <= Buffer_len(buffer)

\* C2: whenever the ALL filter is set, its visibility vector has as many
\* entries as the buffer has lines.
C2_FilterCoversBuffer ==
    all_filter # None => Len(all_filter[1]) = Buffer_len(buffer)

\* C3: is_modified() is false right after a successful load or save; a call
\* other than those leaves it true when it was true before the call (a mutation
\* had succeeded since the last load or save) or when the call changed the
\* buffer's lines.
C3_ModifiedTracksMutation ==
    /\ LoadOrSave => ~buffer.modified
    /\ (~LoadOrSave /\ (before.buffer.modified \/ buffer.lines # before.buffer.lines))
       => buffer.modified

\* the mutating operations of C4: CHANGE, INPUT with text, DELETE, SORT and
\* each prefix command other than SetCurrent
Undoable ==
    \/ Command("Change") \/ Command("Delete") \/ Command("Sort")
    \/ Command("Input") /\ op.cmd.text # None
    \/ op.api = "execute_prefix" /\ op.cmd.name # "SetCurrent"

\* the lines, cursor and alt_count after the step are those before the last call
RestoredByStep ==
    /\ buffer'.lines = before.buffer.lines
    /\ current_line' = before.current_line
    /\ current_col' = before.current_col
    /\ alt_count' = before.alt_count

\* C4: one of the mutating operations and then UNDO leaves the buffer's lines,
\* current_line, current_col and alt_count as they were before the operation.
C4_UndoRestores ==
    [][(Undoable /\ op'.api = "execute" /\ op'.cmd.name = "Undo") => RestoredByStep]_vars

\* an UNDO has just brought back lines that a deletion had removed, and the
\* alt_count from before it
C4_Witness ==
    /\ Command("Undo") /\ Succeeded
    /\ Len(buffer.lines) > Len(before.buffer.lines)
    /\ before.pending_block = None
    /\ before.alt_count > alt_count

\* C5: a GET that read lines and every input_line first store the lines,
\* cursor and alt_count they were called with in the undo snapshot.
C5_GetAndInputSnapshot ==
    \/ ~(\/ Command("Get") /\ Succeeded /\ buffer.lines # before.buffer.lines
         \/ op.api = "input_line")
    \/ undo_snapshot = Some([lines |-> before.buffer.lines,
                             current_line |-> before.current_line,
                             current_col |-> before.current_col,
                             alt_count |-> before.alt_count])

\* every field of the editor but message is as before the last call
NothingButMessage ==
    /\ buffer = before.buffer
    /\ current_line = before.current_line
    /\ current_col = before.current_col
    /\ filepath = before.filepath
    /\ alt_count = before.alt_count
    /\ pending_block = before.pending_block
    /\ pending_operation = before.pending_operation
    /\ all_filter = before.all_filter
    /\ undo_snapshot = before.undo_snapshot
    /\ case_respect = before.case_respect
    /\ stay = before.stay

\* C6: UNDO with no snapshot held fails with InvalidCommand "Nothing to undo"
\* and changes nothing but the message; no snapshot is held on a new editor,
\* nor right after a successful UNDO.
C6_NothingToUndo ==
    /\ (Command("Undo") /\ before.undo_snapshot = None)
       => /\ result = Err("InvalidCommand", "Nothing to undo")
          /\ message = Some("Nothing to undo")
          /\ NothingButMessage
    /\ (Command("Undo") /\ Succeeded) => undo_snapshot = None
    /\ steps = 0 => undo_snapshot = None

\* the third call, an UNDO, has failed though the first call, a block marker,
\* took a snapshot: the second call was the UNDO that used the snapshot up
C6_Witness ==
    /\ Command("Undo") /\ result = Err("InvalidCommand", "Nothing to undo")
    /\ steps = 3
    /\ pending_block # None

\* C7: QUIT on a modified buffer returns FileModified and changes neither the
\* buffer, the cursor nor alt_count; on an unmodified buffer it returns action
\* Quit; QQUIT returns action Quit in every state.
C7_QuitGuarded ==
    /\ Command("Quit") =>
          IF before.buffer.modified
          THEN /\ result = ErrBare("FileModified")
               /\ buffer = before.buffer
               /\ current_line = before.current_line
               /\ current_col = before.current_col
               /\ alt_count = before.alt_count
          ELSE result = ResultQuit
    /\ Command("QQuit") => result = ResultQuit /\ buffer = before.buffer

\* QUIT has been refused on a modified buffer
C7_Witness ==
    /\ Command("Quit") /\ result.kind = "FileModified"
    /\ buffer.modified /\ buffer.lines # <<>>

\* C8: between load and save events a call leaves alt_count equal or larger;
\* stated of every call but UNDO, which puts back the snapshot's alt_count.
C8_AltCountNeverDecreases ==
    (~LoadOrSave /\ ~Command("Undo")) => alt_count >= before.alt_count

\* the block type a block marker's prefix command carries
MarkerType ==
    CASE op.cmd.name = "DeleteBlock" -> "Delete"
      [] op.cmd.name = "CopyBlock" -> "Copy"
      [] op.cmd.name = "MoveBlock" -> "Move"
      [] op.cmd.name = "DuplicateBlock" -> "Duplicate"
      [] OTHER -> "none"

\* the last call was a block marker (dd, cc, mm or "")
Marker == op.api = "execute_prefix" /\ MarkerType # "none"

\* the range between the pending start line and the marker's line
RangeLo == Min(before.pending_block[1].start_line, op.line_num)
RangeHi == Max(before.pending_block[1].start_line, op.line_num)
RangeCount == RangeHi - RangeLo + 1

\* C9: with a block marker pending, a marker of another type at any line
\* returns PrefixError "Conflicting block operation pending" and leaves
\* pending_block, pending_operation, the lines, current_line and alt_count
\* unchanged; a marker of the pending type commits against the pending start
\* line: the block is closed over the range between the two lines.
C9_ConflictKeepsPending ==
    (Marker /\ before.pending_block # None) =>
       IF before.pending_block[1].command # MarkerType
       THEN /\ result = Err("PrefixError", "Conflicting block operation pending")
            /\ pending_block = before.pending_block
            /\ pending_operation = before.pending_operation
            /\ SameText
       ELSE /\ Succeeded
            /\ pending_block = None
            /\ CASE MarkerType = "Delete" ->
                      /\ alt_count = before.alt_count + RangeCount
                      /\ result.message = Some(ToString(RangeCount) \o " line(s) deleted")
                 [] MarkerType \in {"Copy", "Move"} ->
                      /\ pending_operation = Some([op_type |-> MarkerType,
                                                   source_start |-> RangeLo,
                                                   source_end |-> RangeHi])
                      /\ SameText
                 [] MarkerType = "Duplicate" ->
                      alt_count = before.alt_count + RangeCount

\* a marker of another type has been refused while a block delete was pending
\* on an existing line
C9_Witness ==
    /\ Marker /\ MarkerType # "Delete"
    /\ result = Err("PrefixError", "Conflicting block operation pending")
    /\ pending_block # None /\ pending_block[1].command = "Delete"
    /\ pending_block[1].start_line \in 1..Buffer_len(buffer)

\* C10: dd at an existing line a with no block pending marks the block and
\* changes no line; dd at an existing line b then deletes exactly the lines
\* min(a,b)..max(a,b), keeps the others in order, raises alt_count by
\* max-min+1, reports "<max-min+1> line(s) deleted", leaves current_line <=
\* buffer length and no block pending.
C10_BlockDelete ==
    /\ (Prefix("DeleteBlock") /\ before.pending_block = None)
       => /\ pending_block = Some([command |-> "Delete", start_line |-> op.line_num])
          /\ SameText
    /\ (/\ Prefix("DeleteBlock")
        /\ before.pending_block # None
        /\ before.pending_block[1].command = "Delete"
        /\ before.pending_block[1].start_line \in 1..Len(before.buffer.lines)
        /\ op.line_num \in 1..Len(before.buffer.lines))
       => /\ buffer.lines = SubSeq(before.buffer.lines, 1, RangeLo - 1)
                            \o SubSeq(before.buffer.lines, RangeHi + 1,
                                      Len(before.buffer.lines))
          /\ alt_count = before.alt_count + RangeCount
          /\ result = ResultWithMessage(ToString(RangeCount) \o " line(s) deleted")
          /\ current_line <= Buffer_len(buffer)
          /\ pending_block = None

\* dd at a later line and then dd at an earlier one have deleted two lines
C10_Witness ==
    /\ Prefix("DeleteBlock")
    /\ before.pending_block # None
    /\ before.pending_block[1].command = "Delete"
    /\ before.pending_block[1].start_line > op.line_num
    /\ op.line_num >= 1
    /\ Len(before.buffer.lines) = Len(buffer.lines) + 2
    /\ result = ResultWithMessage("2 line(s) deleted")

\* the last call was a destination prefix command (f or p)
Destination == Prefix("Following") \/ Prefix("Preceding")

\* the copy/move pending when the last call was made
Pending == before.pending_operation[1]

\* C11: a destination given after the buffer has shrunk below the end of the
\* pending source range (which lay within the buffer when it was marked) is
\* rejected with an error and changes neither the lines nor alt_count.
C11_ShrunkSourceRejected ==
    (/\ Destination
     /\ before.pending_operation # None
     /\ Pending.source_start >= 1
     /\ Pending.source_end <= marked_len
     /\ Pending.source_end > Len(before.buffer.lines))
    => /\ ~Succeeded
       /\ buffer.lines = before.buffer.lines
       /\ alt_count = before.alt_count

\* the last call was one of the prefix commands that set pending_operation
MarksOperation ==
    Prefix("Copy") \/ Prefix("Move") \/ Prefix("CopyBlock") \/ Prefix("MoveBlock")

\* C12: a pending copy/move stays set across every call that is no
\* destination, successful or failing, and is left as it was unless the call
\* marks a new source; a destination clears it; a destination with nothing
\* pending fails with "No pending copy/move operation" and leaves the buffer
\* unchanged.
C12_PendingOperationKept ==
    /\ (~Destination /\ before.pending_operation # None)
       => /\ pending_operation # None
          /\ ~MarksOperation => pending_operation = before.pending_operation
    /\ Destination => pending_operation = None
    /\ (Destination /\ before.pending_operation = None)
       => /\ result = Err("PrefixError", "No pending copy/move operation")
          /\ buffer = before.buffer

\* a pending copy/move has survived a prefix Delete that removed a line
C12_Witness ==
    /\ Prefix("Delete")
    /\ Len(buffer.lines) < Len(before.buffer.lines)
    /\ pending_operation # None
    /\ pending_operation = before.pending_operation

\* the lines of the buffer when the last call was made
Was == before.buffer.lines
\* the pending source range lay within the buffer when the last call was made
ValidSource ==
    /\ before.pending_operation # None
    /\ 1 <= Pending.source_start
    /\ Pending.source_start <= Pending.source_end
    /\ Pending.source_end <= Len(Was)
\* the source lines, and the other lines, of the buffer the last call found
SourceLines == SubSeq(Was, Pending.source_start, Pending.source_end)
OtherLines ==
    SubSeq(Was, 1, Pending.source_start - 1) \o SubSeq(Was, Pending.source_end + 1, Len(Was))
\* where the line that was at d is among the other lines (d outside the source)
AmongOthers(d) ==
    IF d < Pending.source_start THEN d
    ELSE d - (Pending.source_end - Pending.source_start + 1)
\* ls put into the sequence into after its first k elements
PutAfter(into, k, ls) == SubSeq(into, 1, k) \o ls \o SubSeq(into, k + 1, Len(into))

\* C13: a pending Move of a valid source range [s,e] completed at an existing
\* line d outside [s,e] keeps the length, puts the moved lines, in order,
\* right after (Following) or right before (Preceding) the line that was at d,
\* keeps the other lines in order, and raises alt_count by e-s+1.
C13_MovePlacesLines ==
    (/\ Destination
     /\ ValidSource
     /\ Pending.op_type = "Move"
     /\ op.line_num \in 1..Len(Was)
     /\ op.line_num < Pending.source_start \/ op.line_num > Pending.source_end)
    => /\ Len(buffer.lines) = Len(Was)
       /\ buffer.lines = PutAfter(OtherLines,
                                  IF Prefix("Following")
                                  THEN AmongOthers(op.line_num)
                                  ELSE AmongOthers(op.line_num) - 1,
                                  SourceLines)
       /\ alt_count = before.alt_count + (Pending.source_end - Pending.source_start + 1)

\* a block of two lines has been moved behind a line that followed it
C13_Witness ==
    /\ Prefix("Following")
    /\ ValidSource
    /\ Pending.op_type = "Move"
    /\ Pending.source_start < Pending.source_end
    /\ op.line_num \in (Pending.source_end + 1)..Len(Was)
    /\ Succeeded
    /\ buffer.lines # Was

\* C14: a pending Copy of a valid source range [s,e] completed at an existing
\* line d puts copies of the e-s+1 source lines, in order, right after line d
\* (Following) or right before it (Preceding; at the top for d = 1), keeps
\* every original line in place and order, raises the length and alt_count by
\* e-s+1 and reports "<N> line(s) copied".
C14_CopyInsertsLines ==
    (/\ Destination
     /\ ValidSource
     /\ Pending.op_type = "Copy"
     /\ op.line_num \in 1..Len(Was))
    => LET n == Pending.source_end - Pending.source_start + 1
       IN /\ buffer.lines = PutAfter(Was,
                                     IF Prefix("Following") THEN op.line_num
                                     ELSE op.line_num - 1,
                                     SourceLines)
          /\ Len(buffer.lines) = Len(Was) + n
          /\ alt_count = before.alt_count + n
          /\ result = ResultWithMessage(ToString(n) \o " line(s) copied")

\* a block of two lines has been copied to the top of the file
C14_Witness ==
    /\ Prefix("Preceding")
    /\ ValidSource
    /\ Pending.op_type = "Copy"
    /\ Pending.source_start < Pending.source_end
    /\ op.line_num = 1
    /\ Len(buffer.lines) = Len(Was) + 2
    /\ SubSeq(buffer.lines, 1, 2) = SourceLines

\* the last call returned an error
Failed == result.action = "Error"

\* C15: when execute or execute_prefix returns an error, the buffer's lines,
\* current_line, current_col, alt_count, the ALL filter, the pending block and
\* the pending copy/move are what they were before the call.
C15_ErrorLeavesState ==
    (op.api \in {"execute", "execute_prefix"} /\ Failed)
    => /\ buffer.lines = before.buffer.lines
       /\ current_line = before.current_line
       /\ current_col = before.current_col
       /\ alt_count = before.alt_count
       /\ all_filter = before.all_filter
       /\ pending_block = before.pending_block
       /\ pending_operation = before.pending_operation

\* a CHANGE that took its undo snapshot and then found nothing to change in a
\* buffer that holds lines, away from the top of the file
C15_Witness ==
    /\ Command("Change")
    /\ Failed
    /\ undo_snapshot # before.undo_snapshot
    /\ Buffer_len(buffer) > 0
    /\ current_line > 0

\* C16: after every execute that returns, the message is that call's outcome:
\* the result's message on success, none when the result carries none, and
\* the error's display string on failure.
C16_MessageIsOutcome ==
    (op.api = "execute" /\ result.kind # "Panic")
    => message = IF Succeeded THEN result.message ELSE Some(ErrorDisplay(result))

\* a command whose result carries no message has run when a message of an
\* earlier command was showing, and no message is left
C16_Witness ==
    /\ op.api = "execute"
    /\ before.had_message
    /\ Succeeded
    /\ result.message = None
    /\ message = None

\* the last line DELETE is to remove, from the line c the call found current
DeleteThrough(c) ==
    IF op.cmd.target = None THEN c
    ELSE IF op.cmd.target[1].tag = "Star" THEN Len(Was)
    ELSE Min(c + op.cmd.target[1].n - 1, Len(Was))

\* C17: with current_line = c >= 1, DELETE with no target, * or n > 0 removes
\* line c, lines c..length, or lines c..min(c+n-1, length); alt_count grows by
\* the number of lines removed, a reported count is that number, and
\* current_line is clamped to the new length. With current_line = 0, DELETE
\* fails with "Cannot delete at Top of File" and removes nothing.
C17_DeleteRemoves ==
    /\ (/\ Command("Delete")
        /\ before.current_line >= 1
        /\ \/ op.cmd.target = None
           \/ op.cmd.target[1].tag = "Star"
           \/ op.cmd.target[1].tag = "Relative" /\ op.cmd.target[1].n > 0)
       => LET c == before.current_line
              removed == Len(Was) - Len(buffer.lines)
          IN /\ Succeeded
             /\ buffer.lines = SubSeq(Was, 1, c - 1)
                                 \o SubSeq(Was, DeleteThrough(c) + 1, Len(Was))
             /\ alt_count = before.alt_count + removed
             /\ result.message # None
                => result.message = Some(ToString(removed) \o " line(s) deleted")
             /\ current_line = Min(c, Len(buffer.lines))
    /\ (Command("Delete") /\ before.current_line = 0)
       => /\ result = Err("InvalidCommand", "Cannot delete at Top of File")
          /\ buffer.lines = Was

\* line i was visible when the last call was made: no ALL filter was active,
\* or the filter did not hide it
WasVisible(i) ==
    \/ before.all_filter = None
    \/ i > Len(before.all_filter[1])
    \/ before.all_filter[1][i]
\* the n-th smallest and the n-th largest element of a set of numbers
NthUp(V, n) == CHOOSE i \in V : Cardinality({j \in V : j <= i}) = n
NthDown(V, n) == CHOOSE i \in V : Cardinality({j \in V : j >= i}) = n
\* where Down(n) and Up(n) from c are to stop
DownStop(c, n) ==
    LET V == {i \in (c + 1)..Len(Was) : WasVisible(i)}
    IN IF Cardinality(V) >= n THEN NthUp(V, n) ELSE Len(Was)
UpStop(c, n) ==
    LET V == {i \in 0..Min(c - 1, Len(Was)) : i = 0 \/ WasVisible(i)}
    IN IF Cardinality(V) >= n THEN NthDown(V, n) ELSE 0

\* C18: Down(n) from line c stops on the n-th visible line after c, or on the
\* last line if fewer than n follow; Up(n) stops on the n-th visible position
\* before c, TOF counted, or at TOF; without an ALL filter that is c+n or c-n
\* clamped to [0, length].
C18_MoveOverVisible ==
    /\ Command("Down")
       => /\ current_line = DownStop(before.current_line, op.cmd.n)
          /\ before.all_filter = None
             => current_line = Min(before.current_line + op.cmd.n, Len(Was))
    /\ Command("Up")
       => /\ current_line = UpStop(before.current_line, op.cmd.n)
          /\ before.all_filter = None
             => current_line = Min(Max(before.current_line - op.cmd.n, 0), Len(Was))

\* a letter with its case folded away
Fold(c) == IF c = "A" THEN "a" ELSE IF c = "B" THEN "b" ELSE c
\* text contains s, letters compared as written (respect) or with case folded
Contains(text, s, respect) ==
    \E p \in 0..(Len(text) - Len(s)) :
       \A k \in 1..Len(s) :
          IF respect THEN text[p + k] = s[k] ELSE Fold(text[p + k]) = Fold(s[k])
\* the lines of lo..hi that contained the string of the last call's target
Hits(lo, hi) ==
    {i \in lo..Min(hi, Len(Was)) : Contains(Was[i], op.cmd.target.s, before.case_respect)}

\* C19: LOCATE with a forward string target moves to the smallest line after
\* current_line that contains the string, with a backward one to the largest
\* line before it (case ignored unless case_respect is set); the current line
\* is never selected, a backward search from TOF never matches, and with no
\* match LOCATE returns TargetNotFound and leaves current_line as it was.
C19_LocateNearest ==
    /\ (Command("Locate") /\ op.cmd.target.tag = "StringForward")
       => LET H == Hits(before.current_line + 1, Len(Was))
          IN IF H # {}
             THEN Succeeded /\ current_line = NthUp(H, 1)
             ELSE result.kind = "TargetNotFound" /\ current_line = before.current_line
    /\ (Command("Locate") /\ op.cmd.target.tag = "StringBackward")
       => LET H == Hits(1, before.current_line - 1)
          IN IF H # {}
             THEN Succeeded /\ current_line = NthDown(H, 1)
             ELSE result.kind = "TargetNotFound" /\ current_line = before.current_line

\* a forward search from a line that holds the string has passed a line without
\* it and stopped on a line that holds it in the other case
C19_Witness ==
    /\ Command("Locate")
    /\ op.cmd.target = StringForward(A)
    /\ before.current_line = 1
    /\ Contains(Was[1], A, TRUE)
    /\ Succeeded
    /\ current_line = 3
    /\ Was[3] = <<"A">>

\* text with its first occurrence of from replaced by to
ReplaceFirst(text, from, to, respect) ==
    LET at == {p \in 0..(Len(text) - Len(from)) :
                  Contains(SubSeq(text, p + 1, p + Len(from)), from, respect)}
        p  == NthUp(at, 1)
    IN SubSeq(text, 1, p) \o to \o SubSeq(text, p + Len(from) + 1, Len(text))

\* C20: CHANGE from->to with count k (default 1) over [start, end], start
\* being current_line or 1 at TOF, replaces the first occurrence of from in
\* each of the first min(k, m) of the m lines of the range that contain it,
\* leaves every other line untouched, raises alt_count by the number of lines
\* changed and reports "<N> change(s) made"; with m = 0 it returns
\* TargetNotFound and changes no line.
C20_ChangeFirstOccurrences ==
    (Command("Change") /\ op.cmd.target = None)
    => LET start == IF before.current_line = 0 THEN 1 ELSE before.current_line
           k == IF op.cmd.count = None THEN 1 ELSE op.cmd.count[1]
           L == {i \in start..Len(Was) :
                    Contains(Was[i], op.cmd.from, before.case_respect)}
           n == Min(k, Cardinality(L))
           chosen == {i \in L : Cardinality({j \in L : j <= i}) <= n}
       IN IF L = {}
          THEN result.kind = "TargetNotFound" /\ buffer.lines = Was
          ELSE /\ Succeeded
               /\ Len(buffer.lines) = Len(Was)
               /\ \A i \in 1..Len(Was) :
                     buffer.lines[i] = IF i \in chosen
                                       THEN ReplaceFirst(Was[i], op.cmd.from, op.cmd.to,
                                                         before.case_respect)
                                       ELSE Was[i]
               /\ alt_count = before.alt_count + n
               /\ result.message = Some(ToString(n) \o " change(s) made")

\* C21: while an ALL filter is active, CHANGE never alters the text of a line
\* the filter hides.
C21_ChangeSparesHidden ==
    (Command("Change") /\ before.all_filter # None)
    => /\ Len(buffer.lines) = Len(Was)
       /\ \A i \in 1..Len(Was) : ~WasVisible(i) => buffer.lines[i] = Was[i]

\* the range [start, end] the last call's SORT was to work on
SortStart == IF before.current_line = 0 THEN 1 ELSE before.current_line
SortEnd ==
    LET r == IF op.cmd.target = None THEN None
             ELSE resolve(op.cmd.target[1], before.current_line, Len(Was),
                          before.case_respect, before.buffer)
    IN IF r = None THEN Len(Was) ELSE r[1]
\* the sort key of a line under the last call's columns
KeyOf(line) == sort_key(line, op.cmd.col_start, op.cmd.col_end)
\* s is t with its elements in some other order
Permutation(s, t) ==
    /\ Len(s) = Len(t)
    /\ \A i \in 1..Len(t) :
          Cardinality({j \in 1..Len(s) : s[j] = t[i]})
            = Cardinality({j \in 1..Len(t) : t[j] = t[i]})
\* s with its elements in the opposite order
Reverse(s) == [i \in 1..Len(s) |-> s[Len(s) + 1 - i]]

\* C22: after a successful SORT over [start, end], the lines start..end are a
\* permutation of the lines that were there, non-decreasing (ascending) or
\* non-increasing (descending) by sort key; the lines outside the range, the
\* length and current_line are unchanged.
C22_SortOrdersRange ==
    (Command("Sort") /\ Succeeded)
    => /\ Len(buffer.lines) = Len(Was)
       /\ current_line = before.current_line
       /\ \A i \in 1..Len(Was) :
             (i < SortStart \/ i > SortEnd) => buffer.lines[i] = Was[i]
       /\ Permutation(SubSeq(buffer.lines, SortStart, SortEnd),
                      SubSeq(Was, SortStart, SortEnd))
       /\ \A i, j \in SortStart..SortEnd :
             i < j => IF op.cmd.ascending
                      THEN ~str_less(KeyOf(buffer.lines[j]), KeyOf(buffer.lines[i]))
                      ELSE ~str_less(KeyOf(buffer.lines[i]), KeyOf(buffer.lines[j]))

\* three lines, two of them with the same key, have been sorted by their first
\* column into another order, from the top of the file
C22_Witness ==
    /\ Command("Sort")
    /\ Succeeded
    /\ op.cmd.col_end = Some(1)
    /\ ~op.cmd.ascending
    /\ SortStart = 1
    /\ SortEnd = 3
    /\ buffer.lines # Was
    /\ KeyOf(buffer.lines[2]) = KeyOf(buffer.lines[3])
    /\ buffer.lines[2] # buffer.lines[3]

\* the last two calls were a successful SORT ascending and then a successful
\* SORT descending with the same target and columns (the current line, and so
\* the range, is the same for both)
AscendingThenDescending ==
    /\ Command("Sort")
    /\ Succeeded
    /\ ~op.cmd.ascending
    /\ before.sorted # None
    /\ before.sorted[1].target = op.cmd.target
    /\ before.sorted[1].col_start = op.cmd.col_start
    /\ before.sorted[1].col_end = op.cmd.col_end
\* the range as the ascending sort left it, and as it is now
WasRange == SubSeq(Was, SortStart, SortEnd)
NowRange == SubSeq(buffer.lines, SortStart, SortEnd)
\* no two different lines of the range have the same sort key
KeysTellLinesApart ==
    \A i, j \in 1..Len(WasRange) :
       KeyOf(WasRange[i]) = KeyOf(WasRange[j]) => WasRange[i] = WasRange[j]

\* C23 as stated: SORT ascending and then SORT descending over the same range
\* leaves the range holding the reverse of what the ascending sort produced,
\* lines with equal sort keys included.
C23_DescendingReverses ==
    AscendingThenDescending => NowRange = Reverse(WasRange)

\* C23: SORT ascending and then SORT descending over the same range leaves the
\* range holding the reverse of what the ascending sort produced when no two
\* different lines of the range have the same sort key; lines with equal keys
\* stay in the order the ascending sort left them.
C23_DescendingReversesApart ==
    AscendingThenDescending
    => /\ KeysTellLinesApart => NowRange = Reverse(WasRange)
       /\ \A i, j \in 1..Len(NowRange) :
             (i < j /\ KeyOf(NowRange[i]) = KeyOf(NowRange[j]))
             => \E k, l \in 1..Len(WasRange) :
                   k <= l /\ WasRange[k] = NowRange[i] /\ WasRange[l] = NowRange[j]

\* three lines with three different keys have been sorted ascending and then
\* descending, and stand in another order than after the ascending sort
C23_Witness ==
    /\ AscendingThenDescending
    /\ KeysTellLinesApart
    /\ Len(WasRange) = 3
    /\ NowRange # WasRange

\* the content predicate of a target holds of a text, under the case setting
\* the last call found; a positional target holds of no text
HoldsSimple(t, text) ==
    /\ t.tag \in {"StringForward", "StringBackward"}
    /\ Contains(text, t.s, before.case_respect)
Holds(t, text) ==
    IF t.tag = "And" THEN HoldsSimple(t.a, text) /\ HoldsSimple(t.b, text)
    ELSE IF t.tag = "Or" THEN HoldsSimple(t.a, text) \/ HoldsSimple(t.b, text)
    ELSE HoldsSimple(t, text)

\* C24: ALL with a target sets the filter so that line i is visible exactly
\* when the target's content predicate holds of line i's text under the
\* current case setting (a positional target holds of no line), reports the
\* number of visible lines, and changes neither the lines, current_line,
\* alt_count nor the modified bit; ALL with no target removes the filter.
C24_AllSetsFilter ==
    Command("All")
    => /\ buffer = before.buffer
       /\ current_line = before.current_line
       /\ alt_count = before.alt_count
       /\ IF op.cmd.target = None
          THEN all_filter = None
          ELSE /\ all_filter # None
               /\ Len(all_filter[1]) = Len(Was)
               /\ \A i \in 1..Len(Was) :
                     all_filter[1][i] = Holds(op.cmd.target[1], Was[i])
               /\ result = ResultWithMessage(
                     ToString(Cardinality({i \in 1..Len(Was) :
                                             Holds(op.cmd.target[1], Was[i])}))
                     \o " line(s) displayed")

\* ALL with a disjunction, case not respected, shows every line of a file of
\* four lines, all of which the filter before it had hidden
C24_Witness ==
    /\ Command("All")
    /\ op.cmd.target = Some(Or(StringForward(B), StringBackward(<<"A">>)))
    /\ ~before.case_respect
    /\ Len(Was) = 4
    /\ all_filter = Some(<<TRUE, TRUE, TRUE, TRUE>>)
    /\ before.all_filter = Some(<<FALSE, FALSE, FALSE, FALSE>>)

\* C25: INPUT with text, executed with current_line = c, inserts the text as
\* the new line c+1, shifting the later lines down by one, sets current_line
\* to c+1 and raises alt_count by 1; INPUT without text returns action
\* EnterInput and changes no editor state but the message, which it clears.
C25_InputInsertsBelow ==
    /\ (Command("Input") /\ op.cmd.text # None)
       => LET c == before.current_line
          IN /\ Len(buffer.lines) = Len(Was) + 1
             /\ c + 1 <= Len(buffer.lines)
             /\ buffer.lines[c + 1] = op.cmd.text[1]
             /\ \A i \in 1..Len(Was) :
                   IF i <= c THEN buffer.lines[i] = Was[i]
                   ELSE buffer.lines[i + 1] = Was[i]
             /\ current_line = c + 1
             /\ alt_count = before.alt_count + 1
    /\ (Command("Input") /\ op.cmd.text = None)
       => /\ result = ResultEnterInput
          /\ message = None
          /\ buffer = before.buffer
          /\ current_line = before.current_line
          /\ current_col = before.current_col
          /\ filepath = before.filepath
          /\ alt_count = before.alt_count
          /\ pending_block = before.pending_block
          /\ pending_operation = before.pending_operation
          /\ all_filter = before.all_filter
          /\ undo_snapshot = before.undo_snapshot
          /\ case_respect = before.case_respect
          /\ stay = before.stay

\* the handler's last call, when it is the last step and has returned
Call == macro_run.call[1]
HandlerReturned ==
    /\ macro_run.phase = "running"
    /\ macro_run.call # None
    /\ op.api \in {"handler", "execute"}
    /\ result.kind # "Panic"
UnderEditorAddress == to_uppercase(Call.addr_env) \in {<<"X", "E", "D", "I", "T">>, <<"C", "O", "M", "M", "A", "N", "D">>}
IsExtract(text) == starts_with(to_uppercase(text), <<"E", "X", "T", "R", "A", "C", "T", " ">>)
EditorAsBefore ==
    /\ \A f \in {"buffer", "current_line", "current_col", "filepath", "alt_count",
                 "pending_block", "pending_operation", "all_filter",
                 "undo_snapshot", "case_respect", "stay"} :
          Editor_fields[f] = before[f]
    /\ (message # None) = before.had_message

\* C26: for every command a macro dispatches under the editor's address,
\* the handler returns 0 for an empty command, 0 for an EXTRACT command,
\* which it does not pass to the editor, 3 for a text that does not parse,
\* and for a command that the editor executes 0 on success, 2 on
\* TargetNotFound, 5 on FileNotFound or Io and 1 on every other error.
C26_ReturnCodes ==
    HandlerReturned /\ UnderEditorAddress =>
        LET text == cmd_text_of(Call.command)
        IN IF text = <<>>
           THEN Call.rc = Some(0) /\ op.api = "handler"
           ELSE IF IsExtract(text)
           THEN Call.rc = Some(0) /\ op.api = "handler" /\ EditorAsBefore
           ELSE IF parse_command(text) = None
           THEN Call.rc = Some(3) /\ op.api = "handler"
           ELSE /\ op.api = "execute"
                /\ Call.rc = Some(CASE result.kind = "Ok" -> 0
                                    [] result.kind = "TargetNotFound" -> 2
                                    [] result.kind \in {"FileNotFound", "Io"} -> 5
                                    [] OTHER -> 1)

\* C26 witness: SAVE of a loaded file fails to write, and the handler
\* returns 5.
C26_Witness ==
    /\ HandlerReturned /\ UnderEditorAddress
    /\ Call.command = <<"S", "A", "V", "E">>
    /\ result.kind = "Io"
    /\ Call.rc = Some(5)

\* run_macro has returned from a run of the macro, and is the last step
MacroReturned ==
    /\ op.api = "run_macro"
    /\ op.cmd.phase = "end"
    /\ result.kind # "Panic"
AtStart == macro_run.at_start[1]
Snapshotting == {"Input", "Delete", "Undo"}

\* C27: when run_macro returns after the macro has run, with or without a
\* runtime error, the handle had one owner when it was unwrapped, the
\* caller's editor is the editor and not the placeholder, its fields are as
\* the last dispatched command left them, and the pending block, the pending
\* operation, the settings and the file path are as they were when the macro
\* started, as is the undo snapshot unless a command that takes or uses a
\* snapshot has run.
C27_EditorReinstated ==
    MacroReturned =>
        /\ macro_run.owners = 1
        /\ macro_run.caller = "editor"
        /\ \A f \in {"buffer", "current_line", "current_col", "filepath",
                     "alt_count", "pending_block", "pending_operation",
                     "all_filter", "undo_snapshot", "case_respect", "stay"} :
              Editor_fields[f] = before[f]
        /\ (message # None) = before.had_message
        /\ \A f \in {"pending_block", "pending_operation", "case_respect", "stay",
                     "filepath"} :
              Editor_fields[f] = AtStart[f]
        /\ \/ undo_snapshot = AtStart.undo_snapshot
           \/ macro_run.ran \cap Snapshotting # {}

\* C27 witness: a macro that starts with a block pending inserts a line and
\* ends in a runtime error; the caller's editor has the new line and the
\* pending block.
C27_Witness ==
    /\ MacroReturned
    /\ result.kind = "InvalidCommand"
    /\ "Input" \in macro_run.ran
    /\ Buffer_len(buffer) = Buffer_len(AtStart.buffer) + 1
    /\ pending_block # None

\* C28: for the whole run of a macro the stem variables hold the values the
\* editor had when the macro started; no dispatched command, EXTRACT
\* included, changes them, whatever it does to the cursor or the buffer.
C28_StemsAreSnapshot ==
    macro_run.phase = "running" =>
        macro_run.stems =
            Some([CURLINE_1 |-> AtStart.current_line,
                  CURLINE_2 |-> IF AtStart.current_line = 0 THEN "ON" ELSE "OFF",
                  CURLINE_3 |-> IF AtStart.current_line \in 1..Buffer_len(AtStart.buffer)
                                THEN AtStart.buffer.lines[AtStart.current_line]
                                ELSE <<>>,
                  SIZE_1 |-> Buffer_len(AtStart.buffer),
                  LINE_1 |-> AtStart.current_line,
                  COLUMN_1 |-> AtStart.current_col,
                  ALT_1 |-> AtStart.alt_count,
                  TOF_1 |-> IF AtStart.current_line = 0 THEN "ON" ELSE "OFF",
                  EOF_1 |-> IF AtStart.current_line >= Buffer_len(AtStart.buffer)
                            THEN "ON" ELSE "OFF",
                  MODIFIED_1 |-> IF AtStart.buffer.modified THEN "ON" ELSE "OFF",
                  CASE_1 |-> IF AtStart.case_respect THEN "RESPECT" ELSE "IGNORE",
                  STAY_1 |-> IF AtStart.stay THEN "ON" ELSE "OFF",
                  LASTMSG_1 |-> IF AtStart.message = None THEN ""
                                ELSE AtStart.message[1]])

\* C28 witness: the macro has inserted a line and then dispatched EXTRACT;
\* SIZE.1 and CURLINE.1 are still those of the start, and no longer those of
\* the editor.
C28_Witness ==
    /\ HandlerReturned
    /\ IsExtract(cmd_text_of(Call.command))
    /\ "Input" \in macro_run.ran
    /\ macro_run.stems[1].SIZE_1 # Buffer_len(buffer)
    /\ macro_run.stems[1].CURLINE_1 # current_line
    /\ macro_run.stems[1].MODIFIED_1 = "OFF"
    /\ buffer.modified

RingCall(name) == op.api = "Ring" /\ op.cmd.name = name
WasLast == before.ring.editors # <<>>
           /\ before.ring.current = Len(before.ring.editors) - 1

\* C29: a ring that is not empty has a current index that designates one of
\* its editors, whatever calls of add_empty, add_file, cycle_next, prev and
\* remove_current came before, and none of them panics; cycle_next from the
\* last editor goes to the first, prev from the first goes to the last,
\* remove_current of the last editor takes that editor out and makes the new
\* last one current; on an empty ring cycle_next and prev return NoFile and
\* leave the ring as it is.
C29_RingIndex ==
    /\ ring.editors # <<>> => ring.current < Len(ring.editors)
    /\ op.api = "Ring" => result.kind # "Panic"
    /\ RingCall("cycle_next") /\ WasLast =>
          /\ result.kind = "Ok"
          /\ ring = [before.ring EXCEPT !.current = 0]
    /\ RingCall("prev") /\ before.ring.editors # <<>> /\ before.ring.current = 0 =>
          /\ result.kind = "Ok"
          /\ ring = [before.ring EXCEPT !.current = Len(before.ring.editors) - 1]
    /\ RingCall("remove_current") /\ WasLast /\ Len(before.ring.editors) > 1 =>
          /\ ring.editors = SubSeq(before.ring.editors, 1,
                                   Len(before.ring.editors) - 1)
          /\ ring.current = Len(ring.editors) - 1
    /\ (RingCall("cycle_next") \/ RingCall("prev")) /\ before.ring.editors = <<>> =>
          /\ result.kind = "NoFile"
          /\ ring = before.ring

\* C29 witness: the last of three editors, each of another file, was
\* current and has been removed; the second is current now.
C29_Witness ==
    /\ RingCall("remove_current")
    /\ WasLast
    /\ Len(before.ring.editors) = 3
    /\ before.ring.editors[1] # before.ring.editors[2]
    /\ before.ring.editors[2] # before.ring.editors[3]
    /\ ring.current = 1

\* the last two calls on the buffer were insert_after(n, x) and delete(n + 1)
InsertedThenDeleted ==
    /\ op.api = "Buffer"
    /\ op.cmd.name = "delete"
    /\ before.last # None
    /\ before.last[1].cmd.name = "insert_after"
    /\ op.cmd.line_num = before.last[1].cmd.after_line + 1
Original == before.last[1].buffer.lines
InsertedAfter == before.last[1].cmd.after_line

\* C30, as stated: for every buffer, every n >= 0 and every text x,
\* insert_after(n, x) followed by delete(n + 1) leaves the lines of the
\* buffer equal to the original ones.
C30_InsertThenDelete ==
    InsertedThenDeleted => free_buffer.lines = Original

\* C30, amended: for every buffer, every n from 0 to the length of the
\* buffer and every text x, insert_after(n, x) followed by delete(n + 1)
\* leaves the lines equal to the original ones; for n greater than the length
\* the text is appended as line length + 1, delete(n + 1) deletes nothing and
\* the appended line stays.
C30_InsertThenDeleteWithin ==
    InsertedThenDeleted =>
        IF InsertedAfter <= Len(Original)
        THEN free_buffer.lines = Original
        ELSE free_buffer.lines = Append(Original, before.last[1].cmd.text)

\* C30 witness: a line was inserted after the first of two lines and deleted
\* again, and the two lines are back.
C30_Witness ==
    /\ InsertedThenDeleted
    /\ Len(Original) = 2
    /\ InsertedAfter = 1
    /\ before.buffer.lines[2] = X
    /\ free_buffer.lines = Original

\* the numbers that name no PF key, as far as the host of SpecPf asks
NoKey == {0} \cup 25..(25 + MaxPfSteps)
\* the SET PFn command the last call executed, if it was one
SetPf == op.api = "execute" /\ op.cmd.name = "Set" /\ op.cmd.subcmd.set = "Pf"
\* the texts that turn PF key 2 off
TurnOff ==
    {<<"S", "E", "T", " ", "P", "F", "2">>,
     <<"S", "E", "T", " ", "P", "F", "2", " ">>,
     <<"S", "E", "T", " ", "P", "F", "2", " ", "O", "F", "F">>,
     <<"s", "e", "t", " ", "p", "f", "2", " ", "o", "f", "f">>,
     <<"S", "E", "T", " ", "P", "F", "2", " ", "O", "f", "f">>}

\* C31: pf_key(i) returns none for every i outside 1..24; a call that sets
\* the PF key of a number outside 1..24, set_pf_key or an executed SET PFn,
\* changes no slot; SET PFn with no text or with OFF is the command that
\* carries the empty text, and executing it leaves slot n empty and the
\* other 23 slots as they were.
C31_PfKeys ==
    /\ [](/\ \A i \in NoKey : pf_key(i) = None
          /\ op.api = "pf_key" /\ op.cmd.num \notin 1..24 => result.returned = None
          /\ \A text \in TurnOff :
                parse_command(text)
                  = Some([name |-> "Set", subcmd |-> [set |-> "Pf", num |-> 2, cmd |-> ""]]))
    /\ [][steps' # steps =>
            /\ op'.api = "set_pf_key" /\ op'.cmd.num \notin 1..24 => pf_keys' = pf_keys
            /\ SetPf' /\ op'.cmd.subcmd.num \notin 1..24 => pf_keys' = pf_keys
            /\ SetPf' /\ op'.cmd.subcmd.num \in 1..24 /\ op'.cmd.subcmd.cmd = "" =>
                  /\ pf_keys'[op'.cmd.subcmd.num - 1] = None
                  /\ \A j \in 0..23 :
                        j # op'.cmd.subcmd.num - 1 => pf_keys'[j] = pf_keys[j]]_vars

\* C31 witness: SET PF1 with the empty text has emptied the slot of PF1,
\* which held HELP, after key 24 was set, and PF3 still holds QUIT
C31_Witness ==
    /\ SetPf /\ op.cmd.subcmd.num = 1 /\ op.cmd.subcmd.cmd = ""
    /\ pf_keys[0] = None
    /\ pf_keys[23] # None
    /\ pf_keys[2] = default_pf_keys[2]

\* the word the last call looked up, in upper case, and the name returned
Looked == to_uppercase(op.cmd.input)
Found == result.returned
Entries == {COMMAND_TABLE[i] : i \in 1..Len(COMMAND_TABLE)}
\* the word is a prefix of the entry's name, at least min_abbrev long
Abbreviates(w, e) == Len(w) >= e.min_abbrev /\ starts_with(e.text, w)

\* C32: lookup_command resolves L to LOCATE, QU to QUERY, and QUE, QUEU and
\* QUEUE to QUEUE; whatever the word, the entry returned has the word (in
\* upper case) as its full name or as a prefix at least as long as the
\* entry's minimum, and a word that is the full name of an entry resolves to
\* that entry.
C32_Lookup ==
    op.api = "lookup_command" =>
        /\ Looked = <<"L">> => Found = Some("LOCATE")
        /\ Looked = <<"Q", "U">> => Found = Some("QUERY")
        /\ Looked \in {<<"Q", "U", "E">>, <<"Q", "U", "E", "U">>,
                        <<"Q", "U", "E", "U", "E">>} => Found = Some("QUEUE")
        /\ Found # None =>
              \E e \in Entries :
                 e.name = Found[1] /\ (e.text = Looked \/ Abbreviates(Looked, e))
        /\ \A e \in Entries : e.text = Looked => Found = Some(e.name)

\* C32 witness: "que", a prefix of QUERY and of QUEUE, was looked up and QUEUE
\* returned
C32_Witness ==
    /\ op.api = "lookup_command"
    /\ op.cmd.input = <<"q", "u", "e">>
    /\ Found = Some("QUEUE")

\* the last call was Top, Bottom, or the prefix command SetCurrent
Repeatable ==
    \/ op.api = "execute" /\ op.cmd.name \in {"Top", "Bottom"}
    \/ op.api = "execute_prefix" /\ op.cmd.name = "SetCurrent"

\* C33: when the host makes a call of Top, of Bottom, or of prefix SetCurrent
\* on a line, and then the same call again, the second call leaves every
\* field of the editor as the first one left it.
C33_TwiceIsOnce ==
    [][/\ steps' # steps
       /\ Repeatable
       /\ op'.api = op.api /\ op'.cmd.name = op.cmd.name /\ op'.line_num = op.line_num
       => UNCHANGED edvars]_vars

\* C33 witness: the second call of a new editor's host was SetCurrent at the
\* line after MaxLines and found the current line there, where only a first
\* SetCurrent at that line can have put it; the call left it there
C33_Witness ==
    /\ steps = 2
    /\ op.api = "execute_prefix" /\ op.cmd.name = "SetCurrent"
    /\ op.line_num = MaxLines + 1
    /\ before.current_line = MaxLines + 1
    /\ current_line = MaxLines + 1

\* C34: whenever a block marker is pending its start line is a line of the
\* buffer, 1 <= start_line <= length, whatever line numbers the host passed to
\* execute_prefix and whatever was deleted while the marker was pending.
C34_PendingBlockInBuffer ==
    pending_block # None =>
        /\ 1 <= pending_block[1].start_line
        /\ pending_block[1].start_line <= Buffer_len(buffer)

\* the command the handler was called with begins with the word COMMAND and a
\* blank, in whatever letter case; the text that remains after them
HasCommandWord ==
    starts_with(to_uppercase(Call.command), <<"C", "O", "M", "M", "A", "N", "D", " ">>)
Remaining == trim(SubSeq(Call.command, 9, Len(Call.command)))

\* C35: a command dispatched under the editor's address that begins with the
\* word COMMAND and a blank, in any letter case, is handled as the remaining
\* text alone is: return code 0 if that is empty or an EXTRACT, 3 if it does
\* not parse, and otherwise the command it parses to is executed and the
\* return code is the one of its result.
C35_CommandWordAnyCase ==
    HandlerReturned /\ UnderEditorAddress /\ HasCommandWord =>
        IF Remaining = <<>> \/ IsExtract(Remaining)
        THEN Call.rc = Some(0) /\ op.api = "handler"
        ELSE IF parse_command(Remaining) = None
        THEN Call.rc = Some(3) /\ op.api = "handler"
        ELSE /\ op.api = "execute"
             /\ op.cmd.name = parse_command(Remaining)[1].name
             /\ Call.rc = Some(return_code(result))

\* C36: QUIT returns action Quit only when the buffer's lines are those of
\* the last load_file or save that succeeded, or none if there was neither,
\* whatever commands, prefix commands, typed lines, typed characters and
\* UNDOs came between.
C36_QuitOnlySaved ==
    Command("Quit") /\ result.kind = "Ok" => buffer.lines = saved

\* C37: a pending Move of a valid source range [s,e] completed with Following
\* or Preceding at a line d within [s,e] leaves the buffer's lines as they
\* were, in the same order.
C37_MoveOntoItself ==
    (/\ Destination
     /\ ValidSource
     /\ Pending.op_type = "Move"
     /\ op.line_num \in Pending.source_start..Pending.source_end)
    => buffer.lines = Was

\* the lines a completed copy put into the buffer: Following puts them after
\* line d, Preceding after line d-1
Copied ==
    LET at == IF Prefix("Following") THEN op.line_num ELSE op.line_num - 1
    IN SubSeq(buffer.lines, at + 1, at + (Len(buffer.lines) - Len(Was)))

\* C38: the lines a pending copy puts at the destination are the lines that
\* were marked, when between the mark and the destination the buffer was
\* changed only by prefix Deletes of lines above the source range; stated of
\* a copy completed at a line of the buffer.
C38_MarkedLinesCopied ==
    (/\ Destination
     /\ before.pending_operation # None
     /\ Pending.op_type = "Copy"
     /\ op.line_num \in 1..Len(Was)
     /\ marked # None
     /\ Succeeded)
    => Copied = marked[1]

\* C39: a command or prefix command that returns an error leaves the undo
\* snapshot as it was, so that UNDO still restores the state from before the
\* last successful mutating command.
C39_ErrorKeepsSnapshot ==
    (op.api \in {"execute", "execute_prefix"} /\ Failed)
    => undo_snapshot = before.undo_snapshot

\* C40: after a load_file that succeeded no undo snapshot, ALL filter,
\* pending block or pending copy/move is left from the content before it, so
\* that an UNDO that follows the load at once finds nothing to undo.
C40_LoadResets ==
    (op.api = "load_file" /\ Succeeded)
    => /\ undo_snapshot = None
       /\ all_filter = None
       /\ pending_block = None
       /\ pending_operation = None

====
